---- MODULE Spec2Model ----
(***************************************************************************)
(* Read-path decryption filter (swift/common/middleware/decrypter.py).     *)
(*                                                                         *)
(* Python 2 byte strings are sequences of byte codes (0..255).  A          *)
(* serialized crypto-meta token (the output of urllib.quote_plus over a    *)
(* JSON document) is carried as ONE symbol >= 256 of such a sequence: the  *)
(* text operations of the filter (rsplit, strip, startswith, slicing)      *)
(* treat it as an opaque character, and json.loads is a table over the     *)
(* tokens.  Header names are strings compared through Lower.               *)
(***************************************************************************)
EXTENDS Integers, Sequences, FiniteSets, TLC

VARIABLES
    env,        \* the WSGI environment of the request
    upstream,   \* the response the wrapped application produces
    crypto,     \* the crypto engine obtained by get_crypto(conf)
    pc,         \* position of the request: "start", "returned", "raised"
    sr,         \* the calls made to the caller's start_response, in order
    ret,        \* what Decrypter.__call__ returned (or the exception raised)
    ctxt,       \* body_crypto_ctxt of the per-request context object
    gen,        \* state of the iter_response generator
    app_iter,   \* the upstream body source: chunks pulled, times closed
    out,        \* chunks the consumer received from the returned iterable
    keyCalls,   \* number of invocations of the key-fetch callback
    dvIn,       \* arguments of a direct decrypt_value call
    dvOut,      \* its outcome
    decrypter   \* the attributes of the Decrypter object the filter is

vars == <<env, upstream, crypto, pc, sr, ret, ctxt, gen, app_iter, out,
          keyCalls, dvIn, dvOut, decrypter>>

reqVars == <<env, upstream, crypto, pc, sr, ret, ctxt, gen, app_iter, out,
             keyCalls>>

(***************************************************************************)
(* Bounds                                                                  *)
(***************************************************************************)
\* longest value prefix enumerated for direct decrypt_value calls
MaxLen == 4
\* length of the whole stored object body
BodyLen == 4

(***************************************************************************)
(* Characters and tokens                                                   *)
(***************************************************************************)
\* byte codes of the characters the filter looks for
Ch == [semi |-> 59, sp |-> 32, eq |-> 61, dash |-> 45, slash |-> 47,
       Q |-> 81, g |-> 103, a |-> 97, p |-> 112, f |-> 102]

\* 'meta='
META_MARKER == <<109, 101, 116, 97, 61>>

\* serialized crypto-meta tokens, one symbol each
Tok == [ok |-> 256, ok2 |-> 257, badcipher |-> 258, noiv |-> 259,
        nocipher |-> 260, badiv |-> 261, notjson |-> 262, nondict |-> 263,
        empty |-> 264]

TokenSyms == {Tok.ok, Tok.ok2, Tok.badcipher, Tok.noiv, Tok.nocipher,
              Tok.badiv, Tok.notjson, Tok.nondict, Tok.empty}

\* None where a string is expected
NoneStr == <<-1>>

\* None where a crypto_meta dict is expected
NoneMeta == [none |-> TRUE]

\* outcomes of an operation: a value, an HTTPException, or another exception
Ok(v) == [kind |-> "ok", val |-> v, msg |-> ""]
Http500(m) == [kind |-> "http", val |-> <<>>, msg |-> m]
Exc(e) == [kind |-> "exc", val |-> <<>>, msg |-> e]

(***************************************************************************)
(* Sequence helpers (str methods)                                          *)
(***************************************************************************)
Slice(s, i, j) == IF i > j THEN <<>> ELSE SubSeq(s, i, j)

\* index of the last occurrence of c in s, 0 if none (str.rsplit(c, 1))
LastIndexOf(s, c) ==
    LET I == {i \in 1..Len(s) : s[i] = c}
    IN IF I = {} THEN 0 ELSE CHOOSE i \in I : \A j \in I : j <= i

IndexOf(s, c) ==
    LET I == {i \in 1..Len(s) : s[i] = c}
    IN IF I = {} THEN 0 ELSE CHOOSE i \in I : \A j \in I : i <= j

\* str.strip()
Strip(s) ==
    LET I == {i \in 1..Len(s) : s[i] # Ch.sp}
    IN IF I = {} THEN <<>>
       ELSE Slice(s, CHOOSE i \in I : \A j \in I : i <= j,
                     CHOOSE i \in I : \A j \in I : j <= i)

StartsWith(s, pre) == Len(s) >= Len(pre) /\ SubSeq(s, 1, Len(pre)) = pre

IsDigit(c) == c >= 48 /\ c <= 57

(***************************************************************************)
(* base64.b64decode (binascii.a2b_base64 of Python 2)                      *)
(***************************************************************************)
B64Val(c) ==
    IF c >= 65 /\ c <= 90 THEN c - 65
    ELSE IF c >= 97 /\ c <= 122 THEN c - 71
    ELSE IF c >= 48 /\ c <= 57 THEN c + 4
    ELSE IF c = 43 THEN 62
    ELSE IF c = 47 THEN 63
    ELSE -1

Pow2(n) == CASE n = 0 -> 1 [] n = 2 -> 4 [] n = 4 -> 16 [] n = 6 -> 64
             [] OTHER -> 256

\* the first valid base64 character after position i, -1 if none
B64NextValid(s, i) ==
    LET I == {j \in (i + 1)..Len(s) :
                 s[j] <= 127 /\ (B64Val(s[j]) # -1 \/ s[j] = Ch.eq)}
    IN IF I = {} THEN -1 ELSE s[CHOOSE j \in I : \A k \in I : j <= k]

RECURSIVE B64Scan(_, _, _, _, _, _)
B64Scan(s, i, quad, leftchar, leftbits, acc) ==
    IF i > Len(s) THEN [left |-> leftbits, bytes |-> acc]
    ELSE LET c == s[i] IN
      IF c > 127 \/ c = 13 \/ c = 10 \/ c = Ch.sp
      THEN B64Scan(s, i + 1, quad, leftchar, leftbits, acc)
      ELSE IF c = Ch.eq
      THEN IF quad < 2 \/ (quad = 2 /\ B64NextValid(s, i) # Ch.eq)
           THEN B64Scan(s, i + 1, quad, leftchar, leftbits, acc)
           ELSE [left |-> 0, bytes |-> acc]
      ELSE IF B64Val(c) = -1
      THEN B64Scan(s, i + 1, quad, leftchar, leftbits, acc)
      ELSE LET lc == leftchar * 64 + B64Val(c)
               lb == leftbits + 6
           IN IF lb >= 8
              THEN B64Scan(s, i + 1, (quad + 1) % 4, lc % Pow2(lb - 8),
                           lb - 8,
                           Append(acc, (lc \div Pow2(lb - 8)) % 256))
              ELSE B64Scan(s, i + 1, (quad + 1) % 4, lc, lb, acc)

\* TypeError('Incorrect padding') when bits are left over
B64Result(r) == IF r.left # 0 THEN Exc("TypeError") ELSE Ok(r.bytes)

b64decode(s) == B64Result(B64Scan(s, 1, 0, 0, 0, <<>>))

(***************************************************************************)
(* The crypto engine: a keystream indexed by absolute byte position        *)
(***************************************************************************)
ENGINE_CIPHER == "AES_CTR_256"

KeyStream(key, iv, pos) == (key * 3 + iv * 5 + pos * 7) % 256

\* Crypto.create_decryption_ctxt(key, iv, offset)
create_decryption_ctxt(key, iv, offset) ==
    [key |-> key, iv |-> iv, offset |-> offset, done |-> 0]

\* whether the context's next update() raises
CtxtThrows(c, cr) == cr.failAfter >= 0 /\ c.done >= cr.failAfter

\* the bytes update() returns for chunk
CtxtPlain(c, chunk) ==
    [i \in 1..Len(chunk) |->
        (chunk[i] + 256 - KeyStream(c.key, c.iv, c.offset + i - 1)) % 256]

\* the context after update(chunk)
CtxtAdvance(c, chunk) ==
    [c EXCEPT !.offset = c.offset + Len(chunk), !.done = c.done + 1]

\* the encryption the write path applies at absolute position offset
Encrypt(key, iv, offset, plain) ==
    [i \in 1..Len(plain) |->
        (plain[i] + KeyStream(key, iv, offset + i - 1)) % 256]

(***************************************************************************)
(* _load_crypto_meta                                                       *)
(***************************************************************************)
\* json.loads(urllib.unquote_plus(token)) for the tokens of the model
JsonOfToken(t) ==
    CASE t = Tok.ok        -> [parse |-> "dict", hasIv |-> TRUE, ivOk |-> TRUE,
                               iv |-> 3, hasCipher |-> TRUE,
                               cipher |-> ENGINE_CIPHER]
      [] t = Tok.ok2       -> [parse |-> "dict", hasIv |-> TRUE, ivOk |-> TRUE,
                               iv |-> 4, hasCipher |-> TRUE,
                               cipher |-> ENGINE_CIPHER]
      [] t = Tok.badcipher -> [parse |-> "dict", hasIv |-> TRUE, ivOk |-> TRUE,
                               iv |-> 3, hasCipher |-> TRUE,
                               cipher |-> "unknown_cipher"]
      [] t = Tok.noiv      -> [parse |-> "dict", hasIv |-> FALSE, ivOk |-> TRUE,
                               iv |-> 0, hasCipher |-> TRUE,
                               cipher |-> ENGINE_CIPHER]
      [] t = Tok.nocipher  -> [parse |-> "dict", hasIv |-> TRUE, ivOk |-> TRUE,
                               iv |-> 3, hasCipher |-> FALSE, cipher |-> ""]
      [] t = Tok.badiv     -> [parse |-> "dict", hasIv |-> TRUE, ivOk |-> FALSE,
                               iv |-> 0, hasCipher |-> TRUE,
                               cipher |-> ENGINE_CIPHER]
      [] t = Tok.empty     -> [parse |-> "dict", hasIv |-> FALSE, ivOk |-> TRUE,
                               iv |-> 0, hasCipher |-> FALSE, cipher |-> ""]
      [] t = Tok.nondict   -> [parse |-> "nondict", hasIv |-> FALSE,
                               ivOk |-> TRUE, iv |-> 0, hasCipher |-> FALSE,
                               cipher |-> ""]
      [] OTHER             -> [parse |-> "invalid", hasIv |-> FALSE,
                               ivOk |-> TRUE, iv |-> 0, hasCipher |-> FALSE,
                               cipher |-> ""]

\* json.loads of a string: one token, a JSON number, or not JSON at all
JsonLoads(s) ==
    IF Len(s) = 1 /\ s[1] >= 256 THEN JsonOfToken(s[1])
    ELSE IF Len(s) >= 1 /\ (\A i \in 1..Len(s) : IsDigit(s[i]))
            /\ (Len(s) = 1 \/ s[1] # 48)
    THEN JsonOfToken(Tok.nondict)
    ELSE JsonOfToken(Tok.notjson)

\* the outcome carries the crypto_meta dict in field meta
MetaOk(m) == [kind |-> "ok", meta |-> m, msg |-> ""]
MetaHttp500(m) == [kind |-> "http", meta |-> NoneMeta, msg |-> m]
MetaExc(e) == [kind |-> "exc", meta |-> NoneMeta, msg |-> e]

\* the dict comprehension and the checks over the parsed document j
CryptoMetaOf(j) ==
    IF j.parse = "invalid"
    THEN MetaHttp500("Could not decrypt. Bad crypto_meta")
    ELSE IF j.parse = "nondict"
    THEN MetaExc("AttributeError")
    ELSE IF j.hasIv /\ ~j.ivOk
    THEN MetaHttp500("Could not decrypt. Bad crypto_meta")
    ELSE IF ~j.hasIv \/ ~j.hasCipher
    THEN MetaHttp500("Could not decrypt. Missing iv and/or cipher")
    ELSE MetaOk([iv |-> j.iv, cipher |-> j.cipher])

load_crypto_meta(value) == CryptoMetaOf(JsonLoads(value))

(***************************************************************************)
(* BaseDecrypterContext                                                    *)
(***************************************************************************)
\* _check_cipher: TRUE when it raises EncryptionException
check_cipher_raises(cipher) == cipher # ENGINE_CIPHER

\* the inline extraction of decrypt_value (lines 108-118): the value and the
\* crypto_meta the rest of the function goes on with, or the exception that
\* leaves the function
Extracted(value, meta) ==
    [kind |-> "ok", value |-> value, meta |-> meta, msg |-> ""]

\* lines 115-118: the except clause catches TypeError and ValueError only
ExtractLoaded(head, r) ==
    IF r.kind = "exc" /\ r.msg \in {"TypeError", "ValueError"}
    THEN Extracted(head, NoneMeta)
    ELSE [kind |-> r.kind, value |-> head, meta |-> r.meta, msg |-> r.msg]

\* lines 112-116: value, param = parts
ExtractParts(head, param) ==
    IF ~StartsWith(param, META_MARKER) THEN Extracted(head, NoneMeta)
    ELSE ExtractLoaded(head, load_crypto_meta(
             Slice(param, Len(META_MARKER) + 1, Len(param))))

\* lines 110-111: parts = value.rsplit(';', 1), split at index k (0: no ';')
ExtractAt(value, k) ==
    IF k = 0 THEN Extracted(value, NoneMeta)
    ELSE ExtractParts(Slice(value, 1, k - 1),
                      Strip(Slice(value, k + 1, Len(value))))

ExtractInline(value) == ExtractAt(value, LastIndexOf(value, Ch.semi))

\* line 131: crypto_ctxt.update(base64.b64decode(value))
UpdateDecoded(c, raw, cr) ==
    IF raw.kind # "ok" THEN raw
    ELSE IF CtxtThrows(c, cr)
    THEN Http500("Testing context update exception")
    ELSE Ok(CtxtPlain(c, raw.val))

\* lines 119-131, with the value and crypto_meta in hand
DecryptExtracted(ex, key, cr) ==
    IF ex.kind = "http" THEN Http500(ex.msg)
    ELSE IF ex.kind = "exc" THEN Exc(ex.msg)
    ELSE IF ex.meta = NoneMeta THEN Ok(ex.value)
    ELSE IF check_cipher_raises(ex.meta.cipher)
    THEN Http500("Error decrypting header value")
    ELSE UpdateDecoded(create_decryption_ctxt(key, ex.meta.iv, 0),
                       b64decode(ex.value), cr)

decrypt_value(value, key, crypto_meta, cr) ==
    IF value = NoneStr \/ value = <<>> THEN Ok(<<>>)
    ELSE IF crypto_meta = NoneMeta
    THEN DecryptExtracted(ExtractInline(value), key, cr)
    ELSE DecryptExtracted(Extracted(value, crypto_meta), key, cr)

\* fetch_crypto_keys(): the role -> key mapping
KEYS == [object |-> 11, container |-> 13]

\* swift.common.http.is_success
is_success(status) == status >= 200 /\ status <= 299

\* swift.common.utils.config_true_value
TRUE_VALUES == {"true", "1", "yes", "on", "t", "y"}
config_true_value(v) == v = "<True>" \/ v \in TRUE_VALUES

\* str.lower() on the header names of the model
Lower(n) ==
    CASE n = "Etag" -> "etag"
      [] n = "Content-Type" -> "content-type"
      [] n = "Content-Length" -> "content-length"
      [] n = "Content-Range" -> "content-range"
      [] n = "X-Object-Sysmeta-Crypto-Etag" -> "x-object-sysmeta-crypto-etag"
      [] n = "X-Object-Sysmeta-Crypto-Meta-Etag"
              -> "x-object-sysmeta-crypto-meta-etag"
      [] n = "X-Object-Sysmeta-Crypto-Meta" -> "x-object-sysmeta-crypto-meta"
      [] n = "X-Object-Meta-Test" -> "x-object-meta-test"
      [] n = "X-Object-Meta-Other" -> "x-object-meta-other"
      [] n = "X-Object-Sysmeta-Crypto-Meta-Test"
              -> "x-object-sysmeta-crypto-meta-test"
      [] n = "x-object-sysmeta-crypto-meta-Test"
              -> "x-object-sysmeta-crypto-meta-test"
      [] n = "x-object-sysmeta-crypto-meta-Other"
              -> "x-object-sysmeta-crypto-meta-other"
      [] n = "x-object-sysmeta-crypto-meta-test"
              -> "x-object-sysmeta-crypto-meta-test"
      [] n = "X-Object-Sysmeta-Test" -> "x-object-sysmeta-test"
      [] OTHER -> n

\* WSGIContext._response_header_value: the first pair whose name matches
response_header_value(headers, key) ==
    LET I == {i \in 1..Len(headers) : Lower(headers[i][1]) = Lower(key)}
    IN IF I = {} THEN NoneStr
       ELSE headers[CHOOSE i \in I : \A j \in I : i <= j][2]

\* request_helpers.strip_user_meta_prefix('object', name): the name after
\* 'x-object-meta-', in its own case; "" when name is not such a header
UserMetaShortName(name) ==
    CASE Lower(name) = "x-object-meta-test" ->
            (IF name = "x-object-meta-test" THEN "test" ELSE "Test")
      [] Lower(name) = "x-object-meta-other" -> "Other"
      [] OTHER -> ""

\* request_helpers.is_user_meta('object', name)
is_user_meta(name) == UserMetaShortName(name) # ""

strip_user_meta_prefix(name) == UserMetaShortName(name)

\* request_helpers.get_obj_persisted_sysmeta_prefix()
get_obj_persisted_sysmeta_prefix == "x-object-sysmeta-"

\* CryptoWSGIContext.get_keys: the callback of the environment
get_keys(e) ==
    IF e.fetch = "absent"
    THEN [kind |-> "http", keys |-> KEYS, called |-> 0,
          msg |-> "swift.crypto.fetch_crypto_keys not in env"]
    ELSE IF e.fetch = "raises"
    THEN [kind |-> "http", keys |-> KEYS, called |-> 1,
          msg |-> "swift.crypto.fetch_crypto_keys had exception: Testing"]
    ELSE [kind |-> "keys", keys |-> KEYS, called |-> 1, msg |-> ""]

LoadIfPresent(crypto_meta_json) ==
    IF crypto_meta_json = NoneStr THEN MetaOk(NoneMeta)
    ELSE load_crypto_meta(crypto_meta_json)

get_sysmeta_crypto_meta(headers, header_name) ==
    LoadIfPresent(response_header_value(headers, header_name))

\* process_resp without the test of swift.crypto.override (lines 144-146)
process_resp_ignoring_override(status, e) ==
    IF status >= 200 /\ status <= 299 THEN get_keys(e)
    ELSE [kind |-> "skip", keys |-> KEYS, called |-> 0, msg |-> ""]

\* kind "skip" stands for the None process_resp returns
process_resp(status, e) ==
    IF ~is_success(status)
    THEN [kind |-> "skip", keys |-> KEYS, called |-> 0, msg |-> ""]
    ELSE IF config_true_value(e.override)
    THEN [kind |-> "skip", keys |-> KEYS, called |-> 0, msg |-> ""]
    ELSE get_keys(e)

(***************************************************************************)
(* DecrypterObjContext                                                     *)
(***************************************************************************)
HdrOk(h) == [kind |-> "ok", hdrs |-> h, msg |-> ""]
HdrFail(r) == [kind |-> r.kind, hdrs |-> <<>>, msg |-> r.msg]

\* the name of the crypto-meta header of a user metadata header
UserCryptoMetaName(name) ==
    (get_obj_persisted_sysmeta_prefix \o "crypto-meta-")
        \o strip_user_meta_prefix(name)

RECURSIVE UserMetaLoop(_, _, _, _, _)

\* lines 171-173: the decrypted value d is appended, or its failure raised
UserMetaDecrypted(headers, i, keys, cr, result, d) ==
    IF d.kind # "ok" THEN HdrFail(d)
    ELSE UserMetaLoop(headers, i + 1, keys, cr,
                      Append(result, <<headers[i][1], d.val>>))

\* lines 163-172 decrypting under the container key instead of
\* keys[self.server_type]
UserMetaWithMeta_container_key(headers, i, keys, cr, result, cm) ==
    IF cm.kind # "ok" THEN HdrFail(cm)
    ELSE IF cm.meta = NoneMeta
    THEN UserMetaLoop(headers, i + 1, keys, cr, result)
    ELSE UserMetaDecrypted(headers, i, keys, cr, result,
             decrypt_value(headers[i][2], keys.container, cm.meta, cr))

\* lines 163-172, with the crypto_meta lookup cm of header i in hand
UserMetaWithMeta(headers, i, keys, cr, result, cm) ==
    IF cm.kind # "ok" THEN HdrFail(cm)
    ELSE IF cm.meta = NoneMeta
    THEN UserMetaLoop(headers, i + 1, keys, cr, result)
    ELSE UserMetaDecrypted(headers, i, keys, cr, result,
             decrypt_value(headers[i][2], keys.object, cm.meta, cr))

\* the loop of decrypt_user_metadata from header i on
UserMetaLoop(headers, i, keys, cr, result) ==
    IF i > Len(headers) THEN HdrOk(result)
    ELSE IF is_user_meta(headers[i][1]) /\ headers[i][2] # <<>>
    THEN UserMetaWithMeta(headers, i, keys, cr, result,
             get_sysmeta_crypto_meta(headers,
                                     UserCryptoMetaName(headers[i][1])))
    ELSE UserMetaLoop(headers, i + 1, keys, cr, result)

decrypt_user_metadata(headers, keys, cr) ==
    UserMetaLoop(headers, 1, keys, cr, <<>>)

\* filter(lambda h: h[0].lower() not in mod_hdr_names, headers)
RECURSIVE FilterHeaders(_, _)
FilterHeaders(headers, names) ==
    IF headers = <<>> THEN <<>>
    ELSE IF Lower(Head(headers)[1]) \in names
    THEN FilterHeaders(Tail(headers), names)
    ELSE <<Head(headers)>> \o FilterHeaders(Tail(headers), names)

HeaderNames(pairs) == {Lower(pairs[i][1]) : i \in 1..Len(pairs)}

\* lines 206-213 without the filter: the replacements are appended to the
\* whole upstream list
ReplaceHeaders_appending(headers, mod_hdr_pairs) == headers \o mod_hdr_pairs

\* lines 206-213: the upstream pairs not replaced, then the replacements
ReplaceHeaders(headers, mod_hdr_pairs) ==
    FilterHeaders(headers, HeaderNames(mod_hdr_pairs)) \o mod_hdr_pairs

\* lines 204-213, with the outcome u of decrypt_user_metadata in hand
WithUserMeta(headers, pairs, u) ==
    IF u.kind # "ok" THEN u
    ELSE HdrOk(ReplaceHeaders(headers, pairs \o u.hdrs))

\* lines 200-204, with the decrypted Content-Type c in hand
WithContentType(headers, keys, cr, pairs, c) ==
    IF c.kind # "ok" THEN HdrFail(c)
    ELSE WithUserMeta(headers, pairs \o << <<"Content-Type", c.val>> >>,
                      decrypt_user_metadata(headers, keys, cr))

\* lines 198-201: Content-Type always goes through decrypt_value
DecryptContentType(headers, keys, cr, pairs) ==
    WithContentType(headers, keys, cr, pairs,
        decrypt_value(response_header_value(headers, "Content-Type"),
                      keys.object, NoneMeta, cr))

\* lines 195-196, with the decrypted Etag e in hand
WithEtag(headers, keys, cr, e) ==
    IF e.kind # "ok" THEN HdrFail(e)
    ELSE DecryptContentType(headers, keys, cr, << <<"Etag", e.val>> >>)

\* lines 191-196, with the crypto_meta lookup of the Etag in hand
WithEtagMeta(headers, keys, cr, crypto_meta) ==
    IF crypto_meta.kind # "ok" THEN HdrFail(crypto_meta)
    ELSE IF crypto_meta.meta # NoneMeta
    THEN WithEtag(headers, keys, cr,
             decrypt_value(response_header_value(headers,
                               "X-Object-Sysmeta-Crypto-Etag"),
                           keys.object, crypto_meta.meta, cr))
    ELSE DecryptContentType(headers, keys, cr, <<>>)

decrypt_resp_headers(headers, keys, cr) ==
    WithEtagMeta(headers, keys, cr,
        get_sysmeta_crypto_meta(headers, "X-Object-Sysmeta-Crypto-Meta-Etag"))

\* 'bytes '
BYTES_SP == <<98, 121, 116, 101, 115, 32>>

RECURSIVE ParseNat(_)
ParseNat(d) ==
    IF d = <<>> THEN 0
    ELSE ParseNat(SubSeq(d, 1, Len(d) - 1)) * 10 + (d[Len(d)] - 48)

RECURSIVE Dec(_)
Dec(n) == IF n < 10 THEN <<48 + n>> ELSE Dec(n \div 10) \o <<48 + (n % 10)>>

AllDigits(d) == d # <<>> /\ \A i \in 1..Len(d) : IsDigit(d[i])

\* the three groups of 'bytes (\d+)-(\d+)/(\d+)'
RangeGroups(a, b, c) ==
    IF AllDigits(a) /\ AllDigits(b) /\ AllDigits(c)
    THEN [ok |-> TRUE, offset |-> ParseNat(a), end |-> ParseNat(b),
          total |-> ParseNat(c)]
    ELSE [ok |-> FALSE, offset |-> 0, end |-> 0, total |-> 0]

RangeSplit(rest, i, j) ==
    IF i > 0 /\ j > i
    THEN RangeGroups(Slice(rest, 1, i - 1), Slice(rest, i + 1, j - 1),
                     Slice(rest, j + 1, Len(rest)))
    ELSE [ok |-> FALSE, offset |-> 0, end |-> 0, total |-> 0]

RangeRest(rest) ==
    RangeSplit(rest, IndexOf(rest, Ch.dash), IndexOf(rest, Ch.slash))

\* swift.common.utils.parse_content_range: ok FALSE is its ValueError
parse_content_range(v) ==
    IF StartsWith(v, BYTES_SP)
    THEN RangeRest(Slice(v, Len(BYTES_SP) + 1, Len(v)))
    ELSE [ok |-> FALSE, offset |-> 0, end |-> 0, total |-> 0]

\* the value of a Content-Range header of a ranged response
ContentRangeValue(n, m, t) ==
    (((BYTES_SP \o Dec(n)) \o <<Ch.dash>>) \o Dec(m)) \o (<<Ch.slash>> \o Dec(t))

CtxtOk(c) == [kind |-> "ok", ctxt |-> c, msg |-> ""]
CtxtFail(r) == [kind |-> r.kind, ctxt |-> NoneMeta, msg |-> r.msg]

\* lines 236-240 leaving offset at 0 whatever the Content-Range says
ContextAtRange_from_zero(keys, iv, r) ==
    IF ~r.ok THEN CtxtFail(Exc("ValueError"))
    ELSE CtxtOk(create_decryption_ctxt(keys.object, iv, 0))

\* lines 236-240, with the parsed Content-Range r in hand
ContextAtRange(keys, iv, r) ==
    IF ~r.ok THEN CtxtFail(Exc("ValueError"))
    ELSE CtxtOk(create_decryption_ctxt(keys.object, iv, r.offset))

\* lines 232-240: the offset is that of the Content-Range of the response
ContextAtOffset(keys, iv, content_range) ==
    IF content_range = NoneStr \/ content_range = <<>>
    THEN CtxtOk(create_decryption_ctxt(keys.object, iv, 0))
    ELSE ContextAtRange(keys, iv, parse_content_range(content_range))

\* lines 219-240 without the _check_cipher of lines 225-230
ContextFromMeta_unchecked(headers, keys, body_crypto_meta) ==
    IF body_crypto_meta.kind # "ok" THEN CtxtFail(body_crypto_meta)
    ELSE IF body_crypto_meta.meta = NoneMeta THEN CtxtOk(NoneMeta)
    ELSE ContextAtOffset(keys, body_crypto_meta.meta.iv,
                         response_header_value(headers, "Content-Range"))

\* lines 219-240 building a context even when the body has no crypto_meta
ContextFromMeta_always(headers, keys, body_crypto_meta) ==
    IF body_crypto_meta.kind # "ok" THEN CtxtFail(body_crypto_meta)
    ELSE IF body_crypto_meta.meta = NoneMeta
    THEN CtxtOk(create_decryption_ctxt(keys.object, 0, 0))
    ELSE IF check_cipher_raises(body_crypto_meta.meta.cipher)
    THEN CtxtFail(Http500(
             "Error creating decryption context for object body"))
    ELSE ContextAtOffset(keys, body_crypto_meta.meta.iv,
                         response_header_value(headers, "Content-Range"))

\* lines 219-240 reporting a cipher mismatch with the text of decrypt_value
ContextFromMeta_header_diagnostic(headers, keys, body_crypto_meta) ==
    IF body_crypto_meta.kind # "ok" THEN CtxtFail(body_crypto_meta)
    ELSE IF body_crypto_meta.meta = NoneMeta THEN CtxtOk(NoneMeta)
    ELSE IF check_cipher_raises(body_crypto_meta.meta.cipher)
    THEN CtxtFail(Http500("Error decrypting header value"))
    ELSE ContextAtOffset(keys, body_crypto_meta.meta.iv,
                         response_header_value(headers, "Content-Range"))

\* lines 219-240, with the crypto_meta lookup of the body in hand
ContextFromMeta(headers, keys, body_crypto_meta) ==
    IF body_crypto_meta.kind # "ok" THEN CtxtFail(body_crypto_meta)
    ELSE IF body_crypto_meta.meta = NoneMeta THEN CtxtOk(NoneMeta)
    ELSE IF check_cipher_raises(body_crypto_meta.meta.cipher)
    THEN CtxtFail(Http500(
             "Error creating decryption context for object body"))
    ELSE ContextAtOffset(keys, body_crypto_meta.meta.iv,
                         response_header_value(headers, "Content-Range"))

\* ctxt NoneMeta stands for the None returned when the body is not encrypted
make_decryption_context(headers, keys) ==
    ContextFromMeta(headers, keys,
        get_sysmeta_crypto_meta(headers, "X-Object-Sysmeta-Crypto-Meta"))

\* one call of start_response
SrCall(status, headers) == [status |-> status, headers |-> headers]

\* what a handler leaves behind: its start_response calls, what it returns
\* (or raises), body_crypto_ctxt, the callback invocations, and what it did
\* to the upstream body source
Handled(calls, kind, msg, body, c, called, pulled, closed) ==
    [sr |-> calls, ret |-> [kind |-> kind, msg |-> msg, body |-> body],
     ctxt |-> c, called |-> called, pulled |-> pulled, closed |-> closed]

\* app_resp = self._app_call(req.environ) when the wrapped application
\* raises: the exception leaves the handler, an HTTPException as one
AppRaised(up) ==
    Handled(<<>>, IF up.fault = "HTTPException" THEN "http" ELSE "exc",
            up.fault, <<>>, NoneMeta, 0, 0, 0)

\* lines 247-251 and 274-277: skip decryption, or the failure of get_keys
NoKeys(up, k) ==
    IF k.kind = "http"
    THEN Handled(<<>>, "http", k.msg, <<>>, NoneMeta, k.called, 0, 0)
    ELSE Handled(<<SrCall(up.status, up.headers)>>, "app_resp", "", <<>>,
                 NoneMeta, k.called, 0, 0)

\* lines 254-267 calling start_response before the headers are decrypted
GetWithHeaders_early_commit(up, k, b, h) ==
    IF h.kind # "ok"
    THEN Handled(<<SrCall(up.status, up.headers)>>, h.kind, h.msg, <<>>,
                 b.ctxt, k.called, 0, 0)
    ELSE IF b.ctxt = NoneMeta
    THEN Handled(<<SrCall(up.status, h.hdrs)>>, "app_resp", "", <<>>,
                 b.ctxt, k.called, 0, 0)
    ELSE Handled(<<SrCall(up.status, h.hdrs)>>, "iter_response", "", <<>>,
                 b.ctxt, k.called, 0, 0)

\* lines 254-267, with the decrypted headers h in hand
GetWithHeaders(up, k, b, h) ==
    IF h.kind # "ok"
    THEN Handled(<<>>, h.kind, h.msg, <<>>, b.ctxt, k.called, 0, 0)
    ELSE IF b.ctxt = NoneMeta
    THEN Handled(<<SrCall(up.status, h.hdrs)>>, "app_resp", "", <<>>,
                 b.ctxt, k.called, 0, 0)
    ELSE Handled(<<SrCall(up.status, h.hdrs)>>, "iter_response", "", <<>>,
                 b.ctxt, k.called, 0, 0)

\* lines 253-267, with the body context b in hand
GetWithContext(up, cr, k, b) ==
    IF b.kind # "ok"
    THEN Handled(<<>>, b.kind, b.msg, <<>>, NoneMeta, k.called, 0, 0)
    ELSE GetWithHeaders(up, k, b, decrypt_resp_headers(up.headers, k.keys, cr))

\* lines 247-267, with the outcome k of process_resp in hand
GetWithKeys(up, cr, k) ==
    IF k.kind # "keys" THEN NoKeys(up, k)
    ELSE GetWithContext(up, cr, k, make_decryption_context(up.headers, k.keys))

\* DecrypterObjContext.GET
ObjGET(e, up, cr) ==
    IF up.fault # "none" THEN AppRaised(up)
    ELSE GetWithKeys(up, cr, process_resp(up.status, e))

\* lines 279-283, with the decrypted headers h in hand
HeadWithHeaders(up, k, h) ==
    IF h.kind # "ok"
    THEN Handled(<<>>, h.kind, h.msg, <<>>, NoneMeta, k.called, 0, 0)
    ELSE Handled(<<SrCall(up.status, h.hdrs)>>, "app_resp", "", <<>>,
                 NoneMeta, k.called, 0, 0)

\* lines 274-283 emitting the upstream headers without decrypting them
HeadWithKeys_undecrypted(up, cr, k) ==
    IF k.kind = "http" THEN NoKeys(up, k)
    ELSE Handled(<<SrCall(up.status, up.headers)>>, "app_resp", "", <<>>,
                 NoneMeta, k.called, 0, 0)

\* lines 274-283, with the outcome k of process_resp in hand
HeadWithKeys(up, cr, k) ==
    IF k.kind # "keys" THEN NoKeys(up, k)
    ELSE HeadWithHeaders(up, k, decrypt_resp_headers(up.headers, k.keys, cr))

\* DecrypterObjContext.HEAD
ObjHEAD(e, up, cr) ==
    IF up.fault # "none" THEN AppRaised(up)
    ELSE HeadWithKeys(up, cr, process_resp(up.status, e))

(***************************************************************************)
(* DecrypterContContext                                                    *)
(*                                                                         *)
(* A listing document is '[' entry, entry ... ']' (with an XML prolog      *)
(* before it in the XML format); an entry is '{' name ':' content_type '}' *)
(* or, for an entry without a content_type field, '{' name '}'.            *)
(***************************************************************************)
Br == [lb |-> 91, rb |-> 93, lc |-> 123, rc |-> 125, colon |-> 58,
       comma |-> 44]

\* the document prolog the filter puts in place of ElementTree's
XML_PROLOG_DOUBLE == <<60, 63, 34, 62>>

RECURSIVE Join(_)
Join(chunks) ==
    IF chunks = <<>> THEN <<>> ELSE Head(chunks) \o Join(Tail(chunks))

\* the entry written between '{' and '}', split at its ':' (k = 0: none)
EntryOf(inner, k) ==
    IF k = 0 THEN [name |-> inner, hasCt |-> FALSE, ct |-> <<>>]
    ELSE [name |-> Slice(inner, 1, k - 1), hasCt |-> TRUE,
          ct |-> Slice(inner, k + 1, Len(inner))]

RECURSIVE ParseEntries(_)

ParseInner(rest, j) ==
    IF j = 0 THEN <<>>
    ELSE <<EntryOf(Slice(rest, 1, j - 1),
                   IndexOf(Slice(rest, 1, j - 1), Br.colon))>>
         \o ParseEntries(Slice(rest, j + 1, Len(rest)))

ParseFrom(s, i) ==
    IF i = 0 THEN <<>>
    ELSE ParseInner(Slice(s, i + 1, Len(s)),
                    IndexOf(Slice(s, i + 1, Len(s)), Br.rc))

ParseEntries(s) == ParseFrom(s, IndexOf(s, Br.lc))

ParseDocument(body) ==
    IF Len(body) >= 2 /\ body[1] = Br.lb /\ body[Len(body)] = Br.rb
    THEN [ok |-> TRUE, entries |-> ParseEntries(body)]
    ELSE [ok |-> FALSE, entries |-> <<>>]

\* json.loads / ElementTree.fromstring of a listing body
ParseListing(s) ==
    IF StartsWith(s, XML_PROLOG_DOUBLE)
    THEN ParseDocument(Slice(s, Len(XML_PROLOG_DOUBLE) + 1, Len(s)))
    ELSE ParseDocument(s)

DumpEntry(en) ==
    IF en.hasCt
    THEN ((<<Br.lc>> \o en.name) \o <<Br.colon>>) \o (en.ct \o <<Br.rc>>)
    ELSE (<<Br.lc>> \o en.name) \o <<Br.rc>>

RECURSIVE DumpEntries(_, _)
DumpEntries(entries, sep) ==
    IF entries = <<>> THEN <<>>
    ELSE IF Len(entries) = 1 THEN DumpEntry(entries[1])
    ELSE (DumpEntry(entries[1]) \o sep) \o DumpEntries(Tail(entries), sep)

\* json.dumps: ', ' between the entries
JsonDumps(entries) ==
    (<<Br.lb>> \o DumpEntries(entries, <<Br.comma, Ch.sp>>)) \o <<Br.rb>>

\* ElementTree.tostring, with the prolog replaced
XmlToString(entries) ==
    XML_PROLOG_DOUBLE \o ((<<Br.lb>> \o DumpEntries(entries, <<>>)) \o <<Br.rb>>)

update_content_length(headers, new_total_len) ==
    FilterHeaders(headers, {"content-length"})
        \o << <<"Content-Length", Dec(new_total_len)>> >>

EntriesOk(entries) == [kind |-> "ok", entries |-> entries, msg |-> ""]
EntriesFail(r) == [kind |-> r.kind, entries |-> <<>>, msg |-> r.msg]

RECURSIVE DecryptEntries(_, _, _, _, _)

\* decrypt_obj_dict, with the decrypted content_type d of entry i in hand
EntryDecrypted(entries, i, keys, cr, acc, d) ==
    IF d.kind # "ok" THEN EntriesFail(d)
    ELSE DecryptEntries(entries, i + 1, keys, cr,
                        Append(acc, [entries[i] EXCEPT !.ct = d.val]))

\* decrypt_obj_dict over the entries in order; the first failure ends it;
\* obj_dict['content_type'] of an entry without the field is a KeyError
DecryptEntries(entries, i, keys, cr, acc) ==
    IF i > Len(entries) THEN EntriesOk(acc)
    ELSE IF ~entries[i].hasCt THEN EntriesFail(Exc("KeyError"))
    ELSE EntryDecrypted(entries, i, keys, cr, acc,
             decrypt_value(entries[i].ct, keys.container, NoneMeta, cr))

RECURSIVE DecryptElems(_, _, _, _, _)

\* lines 346-347, with the decrypted text d of element i in hand
ElemDecrypted(entries, i, keys, cr, acc, d) ==
    IF d.kind # "ok" THEN EntriesFail(d)
    ELSE DecryptElems(entries, i + 1, keys, cr,
                      Append(acc, [entries[i] EXCEPT !.ct = d.val]))

\* process_xml_resp: only the content_type elements present are visited; an
\* empty element has text None, and None.encode is an AttributeError
DecryptElems(entries, i, keys, cr, acc) ==
    IF i > Len(entries) THEN EntriesOk(acc)
    ELSE IF ~entries[i].hasCt
    THEN DecryptElems(entries, i + 1, keys, cr, Append(acc, entries[i]))
    ELSE IF entries[i].ct = <<>> THEN EntriesFail(Exc("AttributeError"))
    ELSE ElemDecrypted(entries, i, keys, cr, acc,
             decrypt_value(entries[i].ct, keys.container, NoneMeta, cr))

BodyOk(b, h) == [kind |-> "ok", body |-> b, hdrs |-> h, msg |-> ""]
BodyFail(r) == [kind |-> r.kind, body |-> <<>>, hdrs |-> <<>>, msg |-> r.msg]

\* update_content_length(len(new_body)); return [new_body]
Rewritten(headers, new_body) ==
    BodyOk(new_body, update_content_length(headers, Len(new_body)))

JsonDecrypted(headers, d) ==
    IF d.kind # "ok" THEN BodyFail(d)
    ELSE Rewritten(headers, JsonDumps(d.entries))

JsonParsed(keys, headers, cr, body_json) ==
    IF ~body_json.ok THEN BodyFail(Exc("ValueError"))
    ELSE JsonDecrypted(headers,
             DecryptEntries(body_json.entries, 1, keys, cr, <<>>))

process_json_resp(keys, chunks, headers, cr) ==
    JsonParsed(keys, headers, cr, ParseListing(Join(chunks)))

XmlDecrypted(headers, d) ==
    IF d.kind # "ok" THEN BodyFail(d)
    ELSE Rewritten(headers, XmlToString(d.entries))

XmlParsed(keys, headers, cr, tree) ==
    IF ~tree.ok THEN BodyFail(Exc("ParseError"))
    ELSE XmlDecrypted(headers, DecryptElems(tree.entries, 1, keys, cr, <<>>))

process_xml_resp(keys, chunks, headers, cr) ==
    XmlParsed(keys, headers, cr, ParseListing(Join(chunks)))

\* request_helpers.get_listing_content_type(req)
get_listing_content_type(e) == e.format

EndsWithXml(t) == t \in {"application/xml", "text/xml"}

\* lines 302-306, with the rewritten listing r in hand: the body source was
\* read to its end and closed by process_json_resp / process_xml_resp
ListingRewritten(up, k, r) ==
    IF r.kind # "ok"
    THEN Handled(<<>>, r.kind, r.msg, <<>>, NoneMeta, k.called,
                 Len(up.chunks), 1)
    ELSE Handled(<<SrCall(up.status, r.hdrs)>>, "listing", "", r.body,
                 NoneMeta, k.called, Len(up.chunks), 1)

\* lines 296-306 treating every format as application/json
ListingInFormat_always_json(up, cr, k, t) ==
    ListingRewritten(up, k,
        process_json_resp(k.keys, up.chunks, up.headers, cr))

\* lines 296-306, with the negotiated format t in hand
ListingInFormat(up, cr, k, t) ==
    IF t = "application/json"
    THEN ListingRewritten(up, k,
             process_json_resp(k.keys, up.chunks, up.headers, cr))
    ELSE IF EndsWithXml(t)
    THEN ListingRewritten(up, k,
             process_xml_resp(k.keys, up.chunks, up.headers, cr))
    ELSE Handled(<<SrCall(up.status, up.headers)>>, "app_resp", "", <<>>,
                 NoneMeta, k.called, 0, 0)

\* lines 295-306, with the outcome k of process_resp in hand
ContWithKeys(e, up, cr, k) ==
    IF k.kind # "keys" THEN NoKeys(up, k)
    ELSE ListingInFormat(up, cr, k, get_listing_content_type(e))

\* DecrypterContContext.GET
ContGET(e, up, cr) ==
    IF up.fault # "none" THEN AppRaised(up)
    ELSE ContWithKeys(e, up, cr, process_resp(up.status, e))

(***************************************************************************)
(* Decrypter                                                               *)
(***************************************************************************)
\* the methods both context classes have from BaseDecrypterContext, besides
\* self taking one or three arguments
BASE_ATTRS == {"_check_cipher", "get_sysmeta_crypto_meta", "decrypt_value",
               "process_resp"}

\* hasattr(DecrypterObjContext, method), hasattr(DecrypterContContext, method):
\* true of every attribute name of the class, the handlers among them
ObjHasAttr(m) ==
    m \in ({"GET", "HEAD", "decrypt_user_metadata", "decrypt_resp_headers",
            "make_decryption_context"} \cup BASE_ATTRS)
ContHasAttr(m) == m \in ({"GET", "update_content_length"} \cup BASE_ATTRS)

\* getattr(dec_context, method)(req, start_response) for a method that is
\* not a handler: the call has the wrong number of arguments, and the wrapped
\* application was not called
NotAHandler ==
    Handled(<<>>, "exc", "TypeError", <<>>, NoneMeta, 0, 0, 0)

\* the context __call__ selects: "object", "container" or "none"
SelectContext(e) ==
    IF e.path = "bad" THEN "none"
    ELSE IF e.path = "object" /\ ObjHasAttr(e.method) THEN "object"
    ELSE IF e.path \in {"object", "container"} /\ ContHasAttr(e.method)
    THEN "container"
    ELSE "none"

\* 'text/plain'
TEXT_PLAIN == <<116, 101, 120, 116, 47, 112, 108, 97, 105, 110>>

\* HTTPInternalServerError(body=msg, content_type='text/plain') called as a
\* WSGI application
ErrorCall == SrCall(500, << <<"Content-Type", TEXT_PLAIN>> >>)

\* lines 380-383: an HTTPException of the handler is rendered
Rendered(h) ==
    IF h.ret.kind = "http"
    THEN [h EXCEPT !.sr = Append(h.sr, ErrorCall), !.ret.kind = "err_body"]
    ELSE h

\* return self.app(env, start_response)
AppCalled(up) ==
    IF up.fault # "none"
    THEN Handled(<<>>, "exc", up.fault, <<>>, NoneMeta, 0, 0, 0)
    ELSE Handled(<<SrCall(up.status, up.headers)>>, "app_resp", "", <<>>,
                 NoneMeta, 0, 0, 0)

\* Decrypter.__init__: the attributes of the filter object once constructed
Decrypter_init(app, conf) ==
    [app |-> app, logger |-> "decrypter", conf |-> conf]

\* get_crypto(conf): a new Crypto object for the configuration; engine is
\* how it behaves
get_crypto(conf, engine) == engine

\* self.crypto = ... on the filter object d
WithCrypto(d, c) ==
    [app |-> d.app, logger |-> d.logger, conf |-> d.conf, crypto |-> c]

\* lines 371-385, with the selected context in hand
Dispatched(e, up, cr, sel) ==
    IF sel = "none" THEN AppCalled(up)
    ELSE IF e.method = "GET" /\ sel = "container"
    THEN Rendered(ContGET(e, up, cr))
    ELSE IF e.method = "GET" THEN Rendered(ObjGET(e, up, cr))
    ELSE IF e.method = "HEAD" THEN Rendered(ObjHEAD(e, up, cr))
    ELSE NotAHandler

\* Decrypter.__call__
DecrypterCall(e, up, cr) == Dispatched(e, up, cr, SelectContext(e))

(***************************************************************************)
(* Direct calls of decrypt_value                                           *)
(***************************************************************************)
RECURSIVE SeqsUpTo(_, _)
SeqsUpTo(S, n) ==
    IF n = 0 THEN {<<>>}
    ELSE LET R == SeqsUpTo(S, n - 1)
         IN R \cup {Append(r, x) : r \in {q \in R : Len(q) = n - 1}, x \in S}

DVAlphabet == {Ch.semi, Ch.sp, Ch.eq, Ch.Q}

DVBodies == SeqsUpTo(DVAlphabet, MaxLen)

\* trailing segments: the marker with each token, the bare marker, the
\* marker cut short, the marker followed by a JSON number, a token followed
\* by a space, and an ordinary parameter 'p=f'
DVParams ==
    {META_MARKER \o <<t>> : t \in TokenSyms}
    \cup {META_MARKER, SubSeq(META_MARKER, 1, 4), META_MARKER \o <<49>>,
          META_MARKER \o <<Tok.ok, Ch.sp>>, <<Ch.p, Ch.eq, Ch.f>>}

DVValues ==
    DVBodies
    \cup {b \o <<Ch.semi>> \o pad \o q :
            b \in DVBodies, pad \in {<<>>, <<Ch.sp>>}, q \in DVParams}

DVMetas == {[iv |-> 3, cipher |-> ENGINE_CIPHER],
            [iv |-> 3, cipher |-> "unknown_cipher"]}

Idle == [kind |-> "idle", val |-> <<>>, msg |-> ""]

ReqIdle ==
    /\ env = [method |-> "-"]
    /\ upstream = [status |-> 0]
    /\ pc = "idle"
    /\ sr = <<>>
    /\ ret = Idle
    /\ ctxt = NoneMeta
    /\ gen = "none"
    /\ app_iter = [pulled |-> 0, closed |-> 0]
    /\ out = <<>>
    /\ keyCalls = 0

InitDV ==
    /\ ReqIdle
    /\ crypto \in {[failAfter |-> -1], [failAfter |-> 0]}
    /\ \/ /\ dvIn \in {[value |-> v, key |-> KEYS.object, meta |-> NoneMeta] :
                           v \in DVValues \cup {NoneStr}}
       \/ /\ dvIn \in {[value |-> v, key |-> k, meta |-> m] :
                           v \in DVBodies, k \in {KEYS.object, KEYS.container},
                           m \in DVMetas}
    /\ dvOut = Idle
    /\ decrypter = Decrypter_init("app", "conf")

DecryptValueCall ==
    /\ dvOut = Idle
    /\ dvOut' = decrypt_value(dvIn.value, dvIn.key, dvIn.meta, crypto)
    /\ UNCHANGED <<reqVars, dvIn, decrypter>>

NextDV == DecryptValueCall

SpecDV == InitDV /\ [][NextDV]_vars

(***************************************************************************)
(* Requests                                                                *)
(***************************************************************************)
\* the stored object: plaintext, and ciphertext under the object key
PLAIN == [i \in 1..BodyLen |-> 10 * i]
BODY_IV == JsonOfToken(Tok.ok).iv
CIPHERTEXT == Encrypt(KEYS.object, BODY_IV, 0, PLAIN)

\* every split of s into non-empty chunks
RECURSIVE Chunkings(_)
Chunkings(s) ==
    IF s = <<>> THEN {<<>>}
    ELSE UNION {{<<SubSeq(s, 1, k)>> \o c :
                    c \in Chunkings(Slice(s, k + 1, Len(s)))} :
                k \in 1..Len(s)}

\* the whole body in two chunks
TwoChunks(s) ==
    IF Len(s) < 2 THEN <<s>> ELSE <<SubSeq(s, 1, 1), Slice(s, 2, Len(s))>>

Hdr(name, vals) == {<<>>} \cup {<< <<name, v>> >> : v \in vals}

B64_A == <<Ch.Q, Ch.Q, Ch.eq, Ch.eq>>
B64_B == <<Ch.Q, Ch.g, Ch.eq, Ch.eq>>

InlineMeta(t) == (B64_A \o <<Ch.semi, Ch.sp>>) \o (META_MARKER \o <<t>>)

ContentTypes ==
    {<<Ch.a>>, <<Ch.a, Ch.semi, Ch.sp, Ch.p, Ch.eq, Ch.f>>,
     InlineMeta(Tok.ok), InlineMeta(Tok.badcipher), InlineMeta(Tok.notjson)}

\* upstream header lists of an object response
ObjHeaderLists ==
    {((((((e \o ce) \o me) \o bm) \o ct) \o um) \o cmu)
        \o << <<"X-Object-Sysmeta-Test", <<Ch.a>> >> >> :
        e \in Hdr("Etag", {<<Ch.f>>}),
        ce \in Hdr("X-Object-Sysmeta-Crypto-Etag", {B64_A}),
        me \in Hdr("X-Object-Sysmeta-Crypto-Meta-Etag",
                   {<<Tok.ok>>, <<Tok.badcipher>>, <<Tok.nocipher>>,
                    <<Tok.nondict>>}),
        bm \in Hdr("X-Object-Sysmeta-Crypto-Meta",
                   {<<Tok.ok>>, <<Tok.badcipher>>, <<Tok.noiv>>,
                    <<Tok.nondict>>}),
        ct \in Hdr("Content-Type", ContentTypes),
        um \in Hdr("X-Object-Meta-Test", {<<Ch.a>>, B64_B, <<>>}),
        cmu \in Hdr("X-Object-Sysmeta-Crypto-Meta-Test",
                    {<<Tok.ok2>>, <<Tok.badcipher>>})}

\* a few header lists for the requests that vary everything else
FewHeaderLists ==
    {<< <<"Content-Type", <<Ch.a>> >> >>,
     << <<"Etag", <<Ch.f>> >>, <<"X-Object-Sysmeta-Crypto-Etag", B64_A>>,
        <<"X-Object-Sysmeta-Crypto-Meta-Etag", <<Tok.ok>> >>,
        <<"X-Object-Sysmeta-Crypto-Meta", <<Tok.ok>> >>,
        <<"content-type", InlineMeta(Tok.ok)>>,
        <<"x-object-meta-test", B64_B>>,
        <<"x-object-sysmeta-crypto-meta-test", <<Tok.ok2>> >> >>,
     << <<"X-Object-Sysmeta-Crypto-Meta", <<Tok.badcipher>> >>,
        <<"Content-Type", InlineMeta(Tok.badcipher)>> >>,
     << <<"X-Object-Sysmeta-Crypto-Meta", <<Tok.notjson>> >>,
        <<"Content-Type", InlineMeta(Tok.noiv)>> >>}

NoFail == [failAfter |-> -1]

Env(method, path, override, fetch, format) ==
    [method |-> method, path |-> path, override |-> override,
     fetch |-> fetch, format |-> format]

Upstream(status, headers, chunks) ==
    [status |-> status, headers |-> headers, chunks |-> chunks,
     fault |-> "none"]

\* a wrapped application that raises instead of responding
AppFault(exception) ==
    [status |-> 0, headers |-> <<>>, chunks |-> <<>>, fault |-> exception]

\* listing bodies of a container response
Entry(n, ct) == [name |-> <<n>>, hasCt |-> TRUE, ct |-> ct]
Listings ==
    {<<>>, <<Entry(49, InlineMeta(Tok.ok))>>,
     <<Entry(49, InlineMeta(Tok.ok)), Entry(50, <<Ch.a>>)>>,
     <<Entry(49, InlineMeta(Tok.badcipher))>>,
     <<Entry(49, <<Ch.a>>), [name |-> <<50>>, hasCt |-> FALSE, ct |-> <<>>]>>,
     <<Entry(49, <<>>)>>,
     <<Entry(49, <<Ch.a, Ch.semi, Ch.sp, Ch.p, Ch.eq, Ch.f>>)>>}

\* the body the container server sends for a listing in a format
ListingBody(format, l) ==
    IF format = "application/json"
    THEN (<<Br.lb>> \o DumpEntries(l, <<Br.comma>>)) \o <<Br.rb>>
    ELSE IF EndsWithXml(format) THEN XmlToString(l)
    ELSE DumpEntries(l, <<10>>)

ContHeaders(body) ==
    << <<"Content-Length", Dec(Len(body))>>, <<"Content-Type", <<Ch.a>> >> >>

\* object GET and HEAD over every header list
InitHeaders ==
    /\ env \in {Env(m, "object", "<absent>", "ok", "text/plain") :
                   m \in {"GET", "HEAD"}}
    /\ upstream \in {Upstream(200, h, TwoChunks(CIPHERTEXT)) :
                        h \in ObjHeaderLists}
    /\ crypto = NoFail

\* every kind of request over a few header lists
InitRequests ==
    /\ env \in {Env(m, p, o, f, "text/plain") :
                   m \in {"GET", "HEAD", "PUT", "process_resp",
                          "update_content_length"},
                   p \in {"object", "account", "bad"},
                   o \in {"<absent>", "<True>", "yes", "false"},
                   f \in {"ok", "absent", "raises"}}
    /\ upstream \in {Upstream(st, h, TwoChunks(CIPHERTEXT)) :
                        st \in {200, 404}, h \in FewHeaderLists}
    /\ crypto \in {NoFail, [failAfter |-> 0]}

\* container requests over listings in every format
InitContainer ==
    /\ env \in {Env(m, "container", o, f, fmt) :
                   m \in {"GET", "HEAD", "process_resp"},
                   o \in {"<absent>", "<True>"},
                   f \in {"ok", "absent"},
                   fmt \in {"text/plain", "application/json",
                            "application/xml"}}
    /\ \E l \in Listings, st \in {200, 404} :
          LET body == ListingBody(env.format, l)
          IN upstream \in {Upstream(st, ContHeaders(body), c) :
                              c \in {<<body>>, TwoChunks(body)}}
    /\ crypto = NoFail

\* object GET of every range of the body under every chunking
InitRanges ==
    /\ env = Env("GET", "object", "<absent>", "ok", "text/plain")
    /\ \E n \in 0..(BodyLen - 1) : \E m \in n..(BodyLen - 1) :
       \E ranged \in BOOLEAN :
          /\ ranged \/ (n = 0 /\ m = BodyLen - 1)
          /\ upstream \in
               {Upstream(IF ranged THEN 206 ELSE 200,
                         (IF ranged
                          THEN << <<"Content-Range",
                                    ContentRangeValue(n, m, BodyLen)>> >>
                          ELSE <<>>)
                         \o << <<"X-Object-Sysmeta-Crypto-Meta",
                                 <<Tok.ok>> >> >>,
                         c) :
                   c \in Chunkings(SubSeq(CIPHERTEXT, n + 1, m + 1))}
    /\ crypto \in {NoFail, [failAfter |-> 1]}

\* every kind of request to an application that raises
InitFaults ==
    /\ env \in {Env(m, p, "<absent>", f, "application/json") :
                   m \in {"GET", "HEAD", "PUT"},
                   p \in {"object", "container", "account", "bad"},
                   f \in {"ok", "absent"}}
    /\ upstream \in {AppFault("HTTPException"), AppFault("Exception")}
    /\ crypto = NoFail

Init ==
    /\ \/ InitHeaders
       \/ InitRequests
       \/ InitContainer
       \/ InitRanges
       \/ InitFaults
    /\ pc = "start"
    /\ sr = <<>>
    /\ ret = [kind |-> "none", msg |-> "", body |-> <<>>]
    /\ ctxt = NoneMeta
    /\ gen = "none"
    /\ app_iter = [pulled |-> 0, closed |-> 0]
    /\ out = <<>>
    /\ keyCalls = 0
    /\ dvIn = [value |-> <<>>, key |-> 0, meta |-> NoneMeta]
    /\ dvOut = Idle
    /\ decrypter = Decrypter_init("app", "conf")

\* the state after __call__ left r behind
Returned(r) ==
    /\ sr' = r.sr
    /\ ret' = r.ret
    /\ ctxt' = r.ctxt
    /\ keyCalls' = r.called
    /\ app_iter' = [pulled |-> r.pulled, closed |-> r.closed]
    /\ gen' = IF r.ret.kind = "iter_response" THEN "unstarted" ELSE "none"
    /\ pc' = IF r.ret.kind = "exc" THEN "raised" ELSE "returned"

\* the filter is called with the request and returns (or raises)
Call ==
    /\ pc = "start"
    /\ Returned(DecrypterCall(env, upstream, crypto))
    /\ decrypter' = WithCrypto(decrypter, get_crypto(decrypter.conf, crypto))
    /\ UNCHANGED <<env, upstream, crypto, out, dvIn, dvOut>>

\* the consumer pulls the next chunk from the upstream body source it was
\* handed
NextFromApp ==
    /\ pc = "returned"
    /\ ret.kind = "app_resp"
    /\ app_iter.closed = 0
    /\ app_iter.pulled < Len(upstream.chunks)
    /\ out' = Append(out, upstream.chunks[app_iter.pulled + 1])
    /\ app_iter' = [app_iter EXCEPT !.pulled = @ + 1]
    /\ UNCHANGED <<env, upstream, crypto, pc, sr, ret, ctxt, gen, keyCalls,
                   dvIn, dvOut,
                   decrypter>>

\* iter_response transforming every chunk with a context that is not carried
\* from one chunk to the next
NextFromGen_fresh_context ==
    /\ pc = "returned"
    /\ gen \in {"unstarted", "suspended"}
    /\ app_iter.pulled < Len(upstream.chunks)
    /\ ~CtxtThrows(ctxt, crypto)
    /\ out' = Append(out, CtxtPlain(ctxt, upstream.chunks[app_iter.pulled + 1]))
    /\ ctxt' = [ctxt EXCEPT !.done = @ + 1]
    /\ app_iter' = [app_iter EXCEPT !.pulled = @ + 1]
    /\ gen' = "suspended"
    /\ UNCHANGED <<env, upstream, crypto, pc, sr, ret, keyCalls, dvIn, dvOut,
                   decrypter>>

\* the consumer pulls from iter_response and a chunk comes out
NextFromGen ==
    /\ pc = "returned"
    /\ gen \in {"unstarted", "suspended"}
    /\ app_iter.pulled < Len(upstream.chunks)
    /\ ~CtxtThrows(ctxt, crypto)
    /\ out' = Append(out, CtxtPlain(ctxt, upstream.chunks[app_iter.pulled + 1]))
    /\ ctxt' = CtxtAdvance(ctxt, upstream.chunks[app_iter.pulled + 1])
    /\ app_iter' = [app_iter EXCEPT !.pulled = @ + 1]
    /\ gen' = "suspended"
    /\ UNCHANGED <<env, upstream, crypto, pc, sr, ret, keyCalls, dvIn, dvOut,
                   decrypter>>

\* iter_response catching the failure of update() and rendering it as an
\* error response through start_response
NextFromGenRaises_rendered ==
    /\ pc = "returned"
    /\ gen \in {"unstarted", "suspended"}
    /\ app_iter.pulled < Len(upstream.chunks)
    /\ CtxtThrows(ctxt, crypto)
    /\ app_iter' = [pulled |-> app_iter.pulled + 1,
                    closed |-> app_iter.closed + 1]
    /\ gen' = "finished"
    /\ pc' = "aborted"
    /\ sr' = Append(sr, ErrorCall)
    /\ UNCHANGED <<env, upstream, crypto, ret, ctxt, out, keyCalls,
                   dvIn, dvOut,
                   decrypter>>

\* the consumer pulls from iter_response and update() raises: the with
\* block closes the upstream source and the exception reaches the consumer
NextFromGenRaises ==
    /\ pc = "returned"
    /\ gen \in {"unstarted", "suspended"}
    /\ app_iter.pulled < Len(upstream.chunks)
    /\ CtxtThrows(ctxt, crypto)
    /\ app_iter' = [pulled |-> app_iter.pulled + 1,
                    closed |-> app_iter.closed + 1]
    /\ gen' = "finished"
    /\ pc' = "aborted"
    /\ UNCHANGED <<env, upstream, crypto, sr, ret, ctxt, out, keyCalls,
                   dvIn, dvOut,
                   decrypter>>

\* the consumer pulls from iter_response and the upstream source is
\* exhausted: the with block closes it
NextFromGenEnds ==
    /\ pc = "returned"
    /\ gen \in {"unstarted", "suspended"}
    /\ app_iter.pulled = Len(upstream.chunks)
    /\ app_iter' = [app_iter EXCEPT !.closed = @ + 1]
    /\ gen' = "finished"
    /\ UNCHANGED <<env, upstream, crypto, pc, sr, ret, ctxt, out, keyCalls,
                   dvIn, dvOut,
                   decrypter>>

\* the consumer pulls the one chunk of a rewritten listing
NextFromListing ==
    /\ pc = "returned"
    /\ ret.kind = "listing"
    /\ out = <<>>
    /\ out' = <<ret.body>>
    /\ UNCHANGED <<env, upstream, crypto, pc, sr, ret, ctxt, gen, app_iter,
                   keyCalls, dvIn, dvOut,
                   decrypter>>

\* the consumer closes what it was returned: the upstream source itself, or
\* the generator (a generator that never started runs no code on close)
Close ==
    /\ pc \in {"returned", "aborted"}
    /\ ret.kind \in {"app_resp", "iter_response"}
    /\ app_iter' = IF ret.kind = "app_resp" \/ gen = "suspended"
                   THEN [app_iter EXCEPT !.closed = @ + 1]
                   ELSE app_iter
    /\ gen' = IF ret.kind = "iter_response" THEN "finished" ELSE gen
    /\ pc' = "closed"
    /\ UNCHANGED <<env, upstream, crypto, sr, ret, ctxt, out, keyCalls,
                   dvIn, dvOut,
                   decrypter>>

Next ==
    \/ Call
    \/ NextFromApp
    \/ NextFromGen
    \/ NextFromGenRaises
    \/ NextFromGenEnds
    \/ NextFromListing
    \/ Close

Spec == Init /\ [][Next]_vars

(***************************************************************************)
(* Properties of decrypt_value (specification SpecDV)                      *)
(***************************************************************************)
\* decrypt_value was called without crypto_meta on a non-empty value
DVCalledInline ==
    /\ dvOut # Idle
    /\ dvIn.meta = NoneMeta
    /\ dvIn.value # NoneStr
    /\ dvIn.value # <<>>

\* the text after the last ';' of the argument, surrounding spaces removed
DVTrailing ==
    Strip(Slice(dvIn.value, LastIndexOf(dvIn.value, Ch.semi) + 1,
                Len(dvIn.value)))

\* the text before the last ';' of the argument
DVLeading == Slice(dvIn.value, 1, LastIndexOf(dvIn.value, Ch.semi) - 1)

\* the argument carries no inline metadata: no ';', or no marker after it
DVNoInlineMeta ==
    \/ LastIndexOf(dvIn.value, Ch.semi) = 0
    \/ ~StartsWith(DVTrailing, META_MARKER)

\* the argument ends in the marker and a token that is not a usable
\* crypto_meta: not JSON, or a JSON object lacking iv or cipher
DVMalformedInlineMeta ==
    /\ LastIndexOf(dvIn.value, Ch.semi) > 0
    /\ StartsWith(DVTrailing, META_MARKER)
    /\ LET j == JsonLoads(Slice(DVTrailing, Len(META_MARKER) + 1,
                                Len(DVTrailing)))
       IN \/ j.parse = "invalid"
          \/ j.parse = "dict" /\ (~j.hasIv \/ ~j.hasCipher)

\* C4: decrypt_value without explicit metadata, on a non-empty value that
\* carries no inline metadata, returns the whole original value unchanged,
\* a trailing ';'-separated parameter included.
C4_NoInlineMetaReturnsOriginal ==
    (DVCalledInline /\ DVNoInlineMeta) => dvOut = Ok(dvIn.value)

\* C5: decrypt_value without explicit metadata never raises when the
\* trailing segment carries the marker but its token is malformed: the value
\* comes back as plaintext.
C5_MalformedInlineMetaPassesThrough ==
    (DVCalledInline /\ DVMalformedInlineMeta)
        => dvOut \in {Ok(dvIn.value), Ok(DVLeading)}

(***************************************************************************)
(* Properties of a request (specification Spec)                            *)
(***************************************************************************)
\* __call__ has returned or raised
Called == pc # "start"

\* the requests a decrypter context handles
ObjRequest == env.path = "object" /\ env.method \in {"GET", "HEAD"}
ContRequest == env.path = "container" /\ env.method = "GET"

\* the wrapped application returned a response
AppResponded == upstream.fault = "none"

Success == AppResponded /\ upstream.status \in 200..299
SkipSignal == config_true_value(env.override)

\* the header pairs of the upstream response
UpstreamPairs == {upstream.headers[i] : i \in 1..Len(upstream.headers)}

\* the caller holds the upstream body source itself: whatever was pulled
\* from it, the consumer pulled, and received as it came
BodyIsUpstreamSource ==
    /\ ret.kind = "app_resp"
    /\ gen = "none"
    /\ ctxt = NoneMeta
    /\ Len(out) = app_iter.pulled
    /\ out = SubSeq(upstream.chunks, 1, app_iter.pulled)

\* C1: on an object GET, an object HEAD and a container GET, a non-success
\* status or a true swift.crypto.override gives the caller the upstream
\* status, the upstream header list and the upstream body source itself,
\* and the key-fetch callback is not invoked.
C1_SkipIsPassthrough ==
    (Called /\ (ObjRequest \/ ContRequest) /\ AppResponded
            /\ (upstream.status \notin 200..299 \/ SkipSignal))
        => /\ sr = <<SrCall(upstream.status, upstream.headers)>>
           /\ BodyIsUpstreamSource
           /\ keyCalls = 0

\* an object GET with a success status, the override set, no key-fetch
\* callback and encrypted headers, its body read to the end by the consumer
C1_Witness ==
    /\ Called
    /\ env.path = "object" /\ env.method = "GET"
    /\ upstream.status = 200
    /\ env.override = "yes"
    /\ env.fetch = "absent"
    /\ response_header_value(upstream.headers,
                             "X-Object-Sysmeta-Crypto-Meta") # NoneStr
    /\ out = upstream.chunks

\* the key-fetch callback is absent or raises
KeyFailure == env.fetch \in {"absent", "raises"}

\* header decryption was reached and failed
HeaderFailure ==
    /\ env.fetch = "ok"
    /\ \/ env.method = "HEAD"
       \/ make_decryption_context(upstream.headers, KEYS).kind = "ok"
    /\ decrypt_resp_headers(upstream.headers, KEYS, crypto).kind # "ok"

\* C2: on an object GET or HEAD with a success status and no skip signal,
\* every key-resolution failure and every failure of header decryption ends
\* in a 500 response, and start_response is never called with the upstream
\* status or with an upstream header.
C2_FailureIsErrorResponse ==
    (Called /\ ObjRequest /\ Success /\ ~SkipSignal
            /\ (KeyFailure \/ HeaderFailure))
        => /\ ret.kind = "err_body"
           /\ \A i \in 1..Len(sr) :
                 /\ sr[i].status = 500
                 /\ \A j \in 1..Len(sr[i].headers) :
                       sr[i].headers[j] \notin UpstreamPairs

\* a serialized crypto_meta naming a cipher other than the engine's
MismatchToken(t) ==
    LET j == JsonLoads(t)
    IN j.parse = "dict" /\ j.hasCipher /\ j.cipher # ENGINE_CIPHER

\* the token after the marker of the last ';'-separated segment of v
InlineToken(v) ==
    LET k == LastIndexOf(v, Ch.semi)
        param == Strip(Slice(v, k + 1, Len(v)))
    IN IF k > 0 /\ StartsWith(param, META_MARKER)
       THEN Slice(param, Len(META_MARKER) + 1, Len(param))
       ELSE <<>>

\* some crypto metadata of the object response names another cipher
ObjMismatch ==
    \E i \in 1..Len(upstream.headers) :
        \/ /\ Lower(upstream.headers[i][1]) \in
                 {"x-object-sysmeta-crypto-meta",
                  "x-object-sysmeta-crypto-meta-etag",
                  "x-object-sysmeta-crypto-meta-test",
                  "x-object-sysmeta-crypto-meta-other"}
           /\ MismatchToken(upstream.headers[i][2])
        \/ /\ Lower(upstream.headers[i][1]) = "content-type"
           /\ MismatchToken(InlineToken(upstream.headers[i][2]))

\* some content_type of the listing names another cipher
ContMismatch ==
    LET l == ParseListing(Join(upstream.chunks)).entries
    IN \E i \in 1..Len(l) :
          l[i].hasCt /\ MismatchToken(InlineToken(l[i].ct))

\* C3: on every decryptable request with a success status and resolved
\* keys, crypto metadata naming a cipher other than the engine's always
\* ends in an error response.
C3_MismatchIsAlwaysError ==
    (Called /\ Success /\ ~SkipSignal /\ env.fetch = "ok"
            /\ \/ ObjRequest /\ ObjMismatch
               \/ /\ ContRequest
                  /\ env.format \in {"application/json", "application/xml"}
                  /\ ContMismatch)
        => ret.kind = "err_body" /\ sr = <<ErrorCall>>

\* an object request answered with the upstream status after decryption
ObjDecrypted ==
    /\ Called /\ ObjRequest /\ Success /\ ~SkipSignal /\ env.fetch = "ok"
    /\ Len(sr) = 1
    /\ sr[1].status = upstream.status

\* the values a header name has in a header list, names compared in lower
\* case
ValuesOf(headers, name) ==
    {headers[i][2] :
        i \in {k \in 1..Len(headers) : Lower(headers[k][1]) = Lower(name)}}

UpstreamValues(name) == ValuesOf(upstream.headers, name)
EmittedValues(name) == ValuesOf(sr[1].headers, name)

\* the plaintext of base64 ciphertext val under key and the iv of the
\* serialized crypto_meta token
DecryptedUnder(key, token, val) ==
    CtxtPlain(create_decryption_ctxt(key, JsonLoads(token).iv, 0),
              b64decode(val).val)

\* C6: the emitted Etag is the decryption of X-Object-Sysmeta-Crypto-Etag
\* under the object key iff that header and X-Object-Sysmeta-Crypto-Meta-Etag
\* are both present; in every other case the upstream Etag is untouched.
C6_EtagReplacedIffBothPresent ==
    ObjDecrypted
        => IF /\ UpstreamValues("X-Object-Sysmeta-Crypto-Etag") # {}
              /\ UpstreamValues("X-Object-Sysmeta-Crypto-Meta-Etag") # {}
           THEN EmittedValues("Etag") =
                  {DecryptedUnder(KEYS.object,
                      response_header_value(upstream.headers,
                          "X-Object-Sysmeta-Crypto-Meta-Etag"),
                      response_header_value(upstream.headers,
                          "X-Object-Sysmeta-Crypto-Etag"))}
           ELSE EmittedValues("Etag") = UpstreamValues("Etag")

\* the crypto-meta system header name of a user metadata header
CryptoMetaNameOf(name) ==
    "x-object-sysmeta-crypto-meta-" \o strip_user_meta_prefix(name)

\* what the client is to see for upstream user metadata header i
ExpectedUserMeta(i) ==
    IF UpstreamValues(CryptoMetaNameOf(upstream.headers[i][1])) = {}
    THEN upstream.headers[i][2]
    ELSE DecryptedUnder(KEYS.object,
             response_header_value(upstream.headers,
                 CryptoMetaNameOf(upstream.headers[i][1])),
             upstream.headers[i][2])

\* C7: every upstream user metadata header is emitted decrypted under the
\* object key when its crypto-meta system header is present and unchanged
\* when it is absent; system headers are emitted as they came.
C7_UserMetadataDecrypted ==
    ObjDecrypted
        => /\ \A i \in 1..Len(upstream.headers) :
                 is_user_meta(upstream.headers[i][1])
                    => EmittedValues(upstream.headers[i][1])
                          = {ExpectedUserMeta(i)}
           /\ \A i \in 1..Len(upstream.headers) :
                 Lower(upstream.headers[i][1]) \in
                     {"x-object-sysmeta-test", "x-object-sysmeta-crypto-etag",
                      "x-object-sysmeta-crypto-meta",
                      "x-object-sysmeta-crypto-meta-etag",
                      "x-object-sysmeta-crypto-meta-test"}
                    => EmittedValues(upstream.headers[i][1])
                          = UpstreamValues(upstream.headers[i][1])

\* an object GET answered with a user metadata header decrypted to a value
\* other than the upstream one, next to an untouched system header
C7_Witness ==
    /\ ObjDecrypted
    /\ env.method = "GET"
    /\ UpstreamValues("X-Object-Meta-Test") = {B64_B}
    /\ UpstreamValues("X-Object-Sysmeta-Crypto-Meta-Test") = {<<Tok.ok2>>}
    /\ EmittedValues("X-Object-Meta-Test")
          = {DecryptedUnder(KEYS.object, <<Tok.ok2>>, B64_B)}
    /\ EmittedValues("X-Object-Meta-Test") # {B64_B}
    /\ EmittedValues("X-Object-Sysmeta-Test") = {<<Ch.a>>}

\* an object GET with a success status, no skip signal and resolved keys
ObjGetWithKeys ==
    /\ env.path = "object" /\ env.method = "GET"
    /\ Success /\ ~SkipSignal /\ env.fetch = "ok"

BODY_DIAGNOSTIC == "Error creating decryption context for object body"

\* C8: an object GET whose body crypto_meta names a cipher other than the
\* engine's ends in a 500 response with the body-stage diagnostic; the
\* upstream status is never emitted and no chunk is pulled from upstream.
C8_BodyCipherMismatch ==
    (Called /\ ObjGetWithKeys
            /\ MismatchToken(response_header_value(upstream.headers,
                                 "X-Object-Sysmeta-Crypto-Meta")))
        => /\ ret = [kind |-> "err_body", msg |-> BODY_DIAGNOSTIC,
                     body |-> <<>>]
           /\ sr = <<ErrorCall>>
           /\ app_iter.pulled = 0
           /\ out = <<>>

\* such a GET, over a response whose other headers are well encrypted
C8_Witness ==
    /\ Called /\ ObjGetWithKeys
    /\ UpstreamValues("X-Object-Sysmeta-Crypto-Meta") = {<<Tok.badcipher>>}
    /\ UpstreamValues("X-Object-Sysmeta-Crypto-Meta-Etag") = {<<Tok.ok>>}
    /\ UpstreamValues("Content-Type") = {InlineMeta(Tok.ok)}
    /\ ret.msg = BODY_DIAGNOSTIC
    /\ sr = <<ErrorCall>>

NoBodyMeta == UpstreamValues("X-Object-Sysmeta-Crypto-Meta") = {}

\* C9 as stated: an object GET with resolved keys and no body crypto_meta
\* header returns the upstream response as it is, status, header list and
\* body source, and never an error.
C9_ResponseIdentical ==
    (Called /\ ObjGetWithKeys /\ NoBodyMeta)
        => /\ sr = <<SrCall(upstream.status, upstream.headers)>>
           /\ BodyIsUpstreamSource

\* C9, amended: such a GET creates no body context and, unless header
\* decryption fails, returns the upstream body source itself under the
\* upstream status; the header list is the output of header decryption.
C9_BodyIsPassedThrough ==
    (Called /\ ObjGetWithKeys /\ NoBodyMeta)
        => /\ ctxt = NoneMeta
           /\ gen = "none"
           /\ IF decrypt_resp_headers(upstream.headers, KEYS, crypto).kind
                    = "ok"
              THEN /\ BodyIsUpstreamSource
                   /\ sr = <<SrCall(upstream.status,
                               decrypt_resp_headers(upstream.headers, KEYS,
                                                    crypto).hdrs)>>
              ELSE /\ ret.kind \in {"err_body", "exc"}
                   /\ app_iter.pulled = 0
                   /\ \A i \in 1..Len(sr) : sr[i] = ErrorCall

\* such a GET whose user metadata was decrypted while the whole body reached
\* the consumer as upstream sent it
C9_Witness ==
    /\ Called /\ ObjGetWithKeys /\ NoBodyMeta
    /\ ret.kind = "app_resp"
    /\ Len(sr) = 1
    /\ EmittedValues("X-Object-Meta-Test") # UpstreamValues("X-Object-Meta-Test")
    /\ out = upstream.chunks
    /\ Join(out) = CIPHERTEXT

\* the first and the last byte position of the response body in the object,
\* as the Content-Range of the response gives them
RangeStart ==
    IF UpstreamValues("Content-Range") = {} THEN 0
    ELSE CHOOSE n \in 0..(BodyLen - 1) :
            \E m \in 0..(BodyLen - 1) :
               UpstreamValues("Content-Range")
                   = {ContentRangeValue(n, m, BodyLen)}

RangeEnd ==
    IF UpstreamValues("Content-Range") = {} THEN BodyLen - 1
    ELSE CHOOSE m \in 0..(BodyLen - 1) :
            \E n \in 0..(BodyLen - 1) :
               UpstreamValues("Content-Range")
                   = {ContentRangeValue(n, m, BodyLen)}

\* C10: with valid body crypto_meta the body context starts at the first
\* byte position of the Content-Range of the response, or at 0 without one,
\* so the decrypted output of a response covering bytes N..M is bytes N..M
\* of the plaintext, whatever the chunking.
C10_RangeCorrect ==
    (Called /\ ObjGetWithKeys
            /\ UpstreamValues("X-Object-Sysmeta-Crypto-Meta") = {<<Tok.ok>>}
            /\ ret.kind \notin {"err_body", "exc"})
        => /\ ret.kind = "iter_response"
           /\ ctxt.key = KEYS.object
           /\ ctxt.iv = BODY_IV
           /\ ctxt.offset = RangeStart + Len(Join(out))
           /\ Join(out) = Slice(PLAIN, RangeStart + 1,
                                RangeStart + Len(Join(out)))
           /\ Len(out) = Len(upstream.chunks)
                 => Join(out) = Slice(PLAIN, RangeStart + 1, RangeEnd + 1)

\* a ranged response that starts after the first byte, in two chunks, read
\* to the end
C10_Witness ==
    /\ Called /\ ObjGetWithKeys
    /\ UpstreamValues("Content-Range") = {ContentRangeValue(1, 3, BodyLen)}
    /\ Len(upstream.chunks) = 2
    /\ gen = "finished"
    /\ Join(out) = Slice(PLAIN, 2, 4)
    /\ Join(out) # Join(upstream.chunks)

(***************************************************************************)
(* Body streaming                                                          *)
(***************************************************************************)
\* the number of body bytes in the first k upstream chunks
BytesBefore(k) == Len(Join(SubSeq(upstream.chunks, 1, k)))

\* the transform of upstream chunk k by the one context of the response,
\* which started at RangeStart and was fed the chunks before k in order
TransformOfChunk(k) ==
    CtxtPlain([key |-> KEYS.object, iv |-> BODY_IV,
               offset |-> RangeStart + BytesBefore(k - 1), done |-> k - 1],
              upstream.chunks[k])

\* C11: on an object GET with a body context the k-th chunk the consumer
\* receives is the transform of the k-th upstream chunk by the single
\* context of the response, chunks are fed to it in upstream order, one is
\* pulled only when the consumer pulls, and the chunks received in full
\* concatenate to the plaintext, whatever the chunking.
C11_StreamingInOrder ==
    (Called /\ ObjGetWithKeys /\ ret.kind = "iter_response")
        => /\ Len(out) <= Len(upstream.chunks)
           /\ \A k \in 1..Len(out) : out[k] = TransformOfChunk(k)
           /\ ctxt.done = Len(out)
           /\ ctxt.offset = RangeStart + BytesBefore(Len(out))
           /\ app_iter.pulled \in {Len(out), Len(out) + 1}
           /\ app_iter.pulled = Len(out) + 1
                 => gen = "finished" /\ crypto.failAfter = Len(out)
           /\ gen = "unstarted" => app_iter.pulled = 0 /\ out = <<>>
           /\ Len(out) = Len(upstream.chunks)
                 => Join(out) = Slice(PLAIN, RangeStart + 1, RangeEnd + 1)

\* the whole body in three chunks, received and read to its end
C11_Witness ==
    /\ Called /\ ObjGetWithKeys /\ ret.kind = "iter_response"
    /\ Len(upstream.chunks) = 3
    /\ Len(out) = 3
    /\ gen = "finished"
    /\ Join(out) = PLAIN
    /\ out[2] # upstream.chunks[2]

\* C12: for the decrypting body sequence of an object GET the upstream body
\* source is closed exactly once on every exit path: the consumer exhausts
\* the sequence, the consumer closes it early (before the first chunk
\* included), or a chunk transform raises; never twice, never omitted.
C12_UpstreamClosedExactlyOnce ==
    (Called /\ ObjGetWithKeys /\ ret.kind = "iter_response")
        => /\ app_iter.closed <= 1
           /\ gen = "finished" => app_iter.closed = 1

(***************************************************************************)
(* HEAD and GET                                                            *)
(***************************************************************************)
\* the request of the state, asked with GET
AsGet == [env EXCEPT !.method = "GET"]

\* what a GET handler left behind is a success response
IsSuccessResponse(g) ==
    /\ g.ret.kind \in {"app_resp", "iter_response"}
    /\ Len(g.sr) = 1
    /\ g.sr[1].status = upstream.status

\* the HEAD of the state emitted what the GET g emitted
HeadEmitsLike(g) == IsSuccessResponse(g) => sr = g.sr

\* C13: whenever an object GET over a response and keys gives a success
\* response, an object HEAD over the same response and keys emits the same
\* status and the same rewritten header list; HEAD pulls no chunk and
\* returns the upstream body source itself.
C13_HeadEmitsWhatGetEmits ==
    (Called /\ env.path = "object" /\ env.method = "HEAD"
            /\ Success /\ ~SkipSignal /\ env.fetch = "ok")
        => /\ HeadEmitsLike(ObjGET(AsGet, upstream, crypto))
           /\ ret.kind \in {"app_resp", "err_body", "exc"}
           /\ gen = "none"
           /\ Len(out) = app_iter.pulled
           /\ ret.kind # "app_resp" => app_iter.pulled = 0

\* a HEAD of an encrypted object whose Etag, Content-Type and user metadata
\* were rewritten, where the GET decrypts the body
C13_Witness ==
    /\ Called /\ env.path = "object" /\ env.method = "HEAD"
    /\ Success /\ ~SkipSignal /\ env.fetch = "ok"
    /\ ObjGET(AsGet, upstream, crypto).ret.kind = "iter_response"
    /\ sr = ObjGET(AsGet, upstream, crypto).sr
    /\ Len(sr) = 1
    /\ EmittedValues("Etag") # UpstreamValues("Etag")
    /\ EmittedValues("Content-Type") # UpstreamValues("Content-Type")
    /\ EmittedValues("X-Object-Meta-Test") # UpstreamValues("X-Object-Meta-Test")
    /\ ret.kind = "app_resp"

\* the decrypting body sequence is closed exactly once on every exit path on
\* which the generator has run
ClosedOnceWhenStarted ==
    (Called /\ ObjGetWithKeys /\ ret.kind = "iter_response")
        => /\ app_iter.closed <= 1
           /\ (gen = "finished" /\ (app_iter.pulled > 0 \/ upstream.chunks = <<>>))
                 => app_iter.closed = 1

(***************************************************************************)
(* Container listings                                                      *)
(***************************************************************************)
\* a container GET with a success status, no skip signal, resolved keys and
\* a structured listing format
ContGetStructured ==
    /\ ContRequest /\ Success /\ ~SkipSignal /\ env.fetch = "ok"
    /\ env.format \in {"application/json", "application/xml"}

\* v ends in a ';'-separated segment that starts with the marker
HasInlineMeta(v) ==
    /\ LastIndexOf(v, Ch.semi) > 0
    /\ StartsWith(Strip(Slice(v, LastIndexOf(v, Ch.semi) + 1, Len(v))),
                  META_MARKER)

\* the content_type the client is to see for the stored content_type v
ExpectedContentType(v) ==
    IF HasInlineMeta(v)
    THEN DecryptedUnder(KEYS.container, InlineToken(v),
                        Slice(v, 1, LastIndexOf(v, Ch.semi) - 1))
    ELSE v

\* listing b has the entries of listing a, in order, with only the
\* content_type replaced by what the client is to see
SameListingDecrypted(a, b) ==
    /\ Len(b) = Len(a)
    /\ \A i \in 1..Len(a) :
          /\ b[i].name = a[i].name
          /\ b[i].hasCt = a[i].hasCt
          /\ a[i].hasCt => b[i].ct = ExpectedContentType(a[i].ct)

\* C14: a rewritten structured listing has the entries of the upstream
\* listing, in order, differing only in content_type (decrypted, or left as
\* it is without inline metadata), and the emitted header list has exactly
\* one Content-Length, the byte length of the emitted body.
C14_ListingFidelity ==
    (Called /\ ContGetStructured /\ ret.kind = "listing")
        => /\ SameListingDecrypted(
                 ParseListing(Join(upstream.chunks)).entries,
                 ParseListing(ret.body).entries)
           /\ Len(sr) = 1
           /\ Cardinality({i \in 1..Len(sr[1].headers) :
                  Lower(sr[1].headers[i][1]) = "content-length"}) = 1
           /\ EmittedValues("Content-Length") = {Dec(Len(ret.body))}

(***************************************************************************)
(* Dispatch                                                                *)
(***************************************************************************)
\* the context the routing rule gives a request
RoutedTo ==
    IF env.path = "object" /\ env.method \in {"GET", "HEAD"} THEN "object"
    ELSE IF env.path \in {"object", "container"} /\ env.method = "GET"
    THEN "container"
    ELSE "none"

\* the request went to the wrapped application and its response came back
\* as it was
Forwarded ==
    /\ sr = <<SrCall(upstream.status, upstream.headers)>>
    /\ BodyIsUpstreamSource
    /\ keyCalls = 0

\* C15: a request goes to the object decrypter iff its path has an object
\* segment and its method is GET or HEAD, otherwise to the container
\* decrypter iff its path has a container segment and its method is GET;
\* every other request is forwarded to the wrapped application untouched.
C15_DispatcherRouting ==
    Called => /\ SelectContext(env) = RoutedTo
              /\ (RoutedTo = "none" /\ AppResponded) => Forwarded

(***************************************************************************)
(* Faults of the wrapped application                                       *)
(***************************************************************************)
\* C16: on every path and method an exception the wrapped application
\* raises while it is called reaches the caller of the filter unchanged and
\* is never rendered as an error response.
C16_AppFaultPropagates ==
    (Called /\ ~AppResponded)
        => /\ ret = [kind |-> "exc", msg |-> upstream.fault, body |-> <<>>]
           /\ pc = "raised"
           /\ sr = <<>>

(***************************************************************************)
(* The frame of header rewriting                                           *)
(***************************************************************************)
\* the upstream user metadata headers that are decrypted: those with a value
\* and a crypto-meta system header of their own
ReplacedUserMeta ==
    {i \in 1..Len(upstream.headers) :
        /\ is_user_meta(upstream.headers[i][1])
        /\ upstream.headers[i][2] # <<>>
        /\ UpstreamValues(CryptoMetaNameOf(upstream.headers[i][1])) # {}}

\* the names, in lower case, the decrypter replaces in this response
ReplacedNames ==
    ({"content-type"}
        \cup (IF UpstreamValues("X-Object-Sysmeta-Crypto-Meta-Etag") # {}
              THEN {"etag"} ELSE {}))
        \cup {Lower(upstream.headers[i][1]) : i \in ReplacedUserMeta}

\* how many pairs the decrypter emits in place of upstream ones
ReplacementCount ==
    (1 + (IF "etag" \in ReplacedNames THEN 1 ELSE 0))
        + Cardinality(ReplacedUserMeta)

NotReplaced(h) == Lower(h[1]) \notin ReplacedNames

\* emitted starts with the pairs kept, and only replacements follow them
FrameHolds(kept, emitted) ==
    /\ Len(emitted) = Len(kept) + ReplacementCount
    /\ SubSeq(emitted, 1, Len(kept)) = kept
    /\ \A i \in (Len(kept) + 1)..Len(emitted) :
          Lower(emitted[i][1]) \in ReplacedNames

\* C17: in the headers of a successful object GET or HEAD every upstream
\* header whose name, in lower case, is not a replaced name appears with its
\* upstream value in its upstream relative order, and no upstream pair with
\* a replaced name survives: the only pairs with such a name are the
\* replacements, one for each.
C17_HeaderFrame ==
    ObjDecrypted
        => FrameHolds(SelectSeq(upstream.headers, NotReplaced), sr[1].headers)

\* a response in which a kept header follows a replaced one, Etag is replaced
\* by another value and Content-Type came in lower case
C17_Witness ==
    /\ ObjDecrypted
    /\ \E i, j \in 1..Len(upstream.headers) :
          /\ i < j
          /\ ~NotReplaced(upstream.headers[i])
          /\ NotReplaced(upstream.headers[j])
    /\ "etag" \in ReplacedNames
    /\ UpstreamValues("Etag") # {}
    /\ EmittedValues("Etag") \cap UpstreamValues("Etag") = {}
    /\ \E i \in 1..Len(upstream.headers) :
          upstream.headers[i][1] = "content-type"

(***************************************************************************)
(* A transform failing while the body is streamed                          *)
(***************************************************************************)
\* update() raised on a chunk pulled from upstream: the chunk was pulled and
\* never yielded
StreamAborted ==
    /\ Called
    /\ ret.kind = "iter_response"
    /\ app_iter.pulled = Len(out) + 1

\* start_response was called once, with the upstream success status and the
\* rewritten headers
CommittedSuccess ==
    /\ Len(sr) = 1
    /\ sr[1].status = upstream.status
    /\ is_success(upstream.status)
    /\ FrameHolds(SelectSeq(upstream.headers, NotReplaced), sr[1].headers)

\* C18: a per-chunk transform fails on an object GET only after
\* start_response was called with the upstream success status and the
\* rewritten headers, and nothing but the exception tells the consumer:
\* in the failing step and ever after start_response is not called again, no
\* other response is substituted, no chunk is yielded and none is retracted.
C18_StreamFailureAfterCommit ==
    /\ [](StreamAborted
             => /\ ObjGetWithKeys
                /\ CommittedSuccess
                /\ gen = "finished"
                /\ pc \in {"aborted", "closed"})
    /\ [][StreamAborted' => (sr' = sr /\ out' = out /\ ret' = ret)]_vars

\* the transform failed on the second chunk, after the first was yielded
C18_Witness ==
    /\ StreamAborted
    /\ pc = "aborted"
    /\ Len(out) = 1
    /\ Len(upstream.chunks) >= 2
    /\ sr[1].status = 206

(***************************************************************************)
(* Container listings passed through                                       *)
(***************************************************************************)
\* a container GET the wrapped application answered
ContGetAnswered == Called /\ ContRequest /\ AppResponded

PlainListing == get_listing_content_type(env) = "text/plain"

\* the caller got the upstream status, the upstream header list and the
\* upstream body source, of which the filter read nothing
ListingPassedThrough ==
    /\ sr = <<SrCall(upstream.status, upstream.headers)>>
    /\ BodyIsUpstreamSource
    /\ app_iter.closed = 0 \/ pc = "closed"

\* C19 (as stated): a container GET in the plain format, or with a
\* non-success status, or with the skip signal set, returns the upstream body
\* source unread with exactly the upstream status and header list.
C19_ListingPassthrough ==
    (ContGetAnswered
        /\ (PlainListing \/ ~is_success(upstream.status) \/ SkipSignal))
        => ListingPassedThrough

\* C19 (amended): the same, the plain format only with resolved keys; a plain
\* listing with a success status, no skip signal and a key callback that is
\* missing ends in the error response of key resolution.
C19_ListingPassthroughWithKeys ==
    /\ (ContGetAnswered
          /\ \/ PlainListing /\ env.fetch = "ok"
             \/ ~is_success(upstream.status)
             \/ SkipSignal)
          => ListingPassedThrough
    /\ (ContGetAnswered /\ PlainListing /\ Success /\ ~SkipSignal
          /\ env.fetch # "ok")
          => ret.kind = "err_body" /\ sr = <<ErrorCall>>
                /\ app_iter.pulled = 0

\* a plain listing of two chunks with resolved keys, read to its end by the
\* consumer
C19_Witness ==
    /\ ContGetAnswered /\ PlainListing /\ Success /\ ~SkipSignal
    /\ env.fetch = "ok"
    /\ keyCalls = 1
    /\ Len(upstream.chunks) = 2
    /\ out = upstream.chunks

(***************************************************************************)
(* State of the filter object                                              *)
(***************************************************************************)
\* C20: once the filter object is constructed no request assigns any of its
\* attributes: handling a request leaves the object as construction left it,
\* so that no request writes state another request can read.
C20_FilterAttributesReadOnly == [][decrypter' = decrypter]_vars

(***************************************************************************)
(* Diagnostics of a cipher mismatch                                        *)
(***************************************************************************)
HEADER_DIAGNOSTIC == "Error decrypting header value"

\* an object request with resolved keys and an engine that does not fail
ObjWithKeys ==
    /\ Called /\ ObjRequest /\ Success /\ ~SkipSignal /\ env.fetch = "ok"
    /\ crypto = NoFail

\* the header is absent or holds well-formed crypto_meta of the engine's
\* cipher
MetaFine(name) ==
    UpstreamValues(name) \subseteq {<<Tok.ok>>, <<Tok.ok2>>}

\* the body stage does not fail: HEAD has none
BodyStagePasses ==
    env.method = "HEAD" \/ MetaFine("X-Object-Sysmeta-Crypto-Meta")

\* the stage at which the request meets crypto metadata of another cipher:
\* the body context first, then Etag, Content-Type and user metadata
BodyStageMismatch ==
    /\ ObjWithKeys /\ env.method = "GET"
    /\ MismatchToken(response_header_value(upstream.headers,
                         "X-Object-Sysmeta-Crypto-Meta"))

ContentTypeStageMismatch ==
    /\ ObjWithKeys /\ BodyStagePasses
    /\ MetaFine("X-Object-Sysmeta-Crypto-Meta-Etag")
    /\ MismatchToken(InlineToken(response_header_value(upstream.headers,
                                     "Content-Type")))

HeaderValueStageMismatch ==
    /\ ObjWithKeys /\ BodyStagePasses
    /\ \/ /\ MismatchToken(response_header_value(upstream.headers,
                               "X-Object-Sysmeta-Crypto-Meta-Etag"))
          /\ UpstreamValues("X-Object-Sysmeta-Crypto-Etag") = {B64_A}
       \/ /\ MetaFine("X-Object-Sysmeta-Crypto-Meta-Etag")
          /\ InlineToken(response_header_value(upstream.headers,
                             "Content-Type")) \in {<<>>, <<Tok.ok>>}
          /\ UpstreamValues("X-Object-Meta-Test") = {B64_B}
          /\ MismatchToken(response_header_value(upstream.headers,
                               "X-Object-Sysmeta-Crypto-Meta-Test"))

\* the diagnostic of a stage: the body of the error response to a GET whose
\* only crypto metadata is of another cipher and belongs to that stage
StageRequest == Env("GET", "object", "<absent>", "ok", "text/plain")
StageHeaders(stage) ==
    CASE stage = "body"
            -> << <<"X-Object-Sysmeta-Crypto-Meta", <<Tok.badcipher>> >> >>
      [] stage = "content-type"
            -> << <<"Content-Type", InlineMeta(Tok.badcipher)>> >>
      [] stage = "header value"
            -> << <<"X-Object-Meta-Test", B64_B>>,
                  <<"X-Object-Sysmeta-Crypto-Meta-Test",
                    <<Tok.badcipher>> >> >>
StageDiagnostic(stage) ==
    DecrypterCall(StageRequest, Upstream(200, StageHeaders(stage), <<>>),
                  NoFail).ret.msg

MismatchResponse(msg) ==
    /\ ret = [kind |-> "err_body", msg |-> msg, body |-> <<>>]
    /\ sr = <<ErrorCall>>

\* C21 (as stated): the error response to a cipher mismatch carries a text
\* of its stage that neither of the two other stages, of body context,
\* Content-Type and header value, produces.
C21_DiagnosticDistinctPerStage ==
    /\ BodyStageMismatch
          => ret.msg \notin {StageDiagnostic("content-type"),
                             StageDiagnostic("header value")}
    /\ ContentTypeStageMismatch
          => ret.msg \notin {StageDiagnostic("body"),
                             StageDiagnostic("header value")}
    /\ HeaderValueStageMismatch
          => ret.msg \notin {StageDiagnostic("body"),
                             StageDiagnostic("content-type")}

\* C21 (amended): a mismatch at the body stage is answered with the body
\* diagnostic, a mismatch at the Content-Type stage or at a header value
\* (Etag, user metadata) with the one header diagnostic they share, and the
\* body diagnostic is not the text of either header stage.
C21_BodyAndHeaderDiagnostics ==
    /\ BodyStageMismatch
          => /\ MismatchResponse(BODY_DIAGNOSTIC)
             /\ ret.msg \notin {StageDiagnostic("content-type"),
                                StageDiagnostic("header value")}
    /\ ContentTypeStageMismatch
          => /\ MismatchResponse(HEADER_DIAGNOSTIC)
             /\ ret.msg # StageDiagnostic("body")
    /\ HeaderValueStageMismatch
          => /\ MismatchResponse(HEADER_DIAGNOSTIC)
             /\ ret.msg # StageDiagnostic("body")

\* a GET whose body metadata is fine and whose Content-Type carries inline
\* metadata of another cipher, answered with the header diagnostic
C21_Witness ==
    /\ ContentTypeStageMismatch
    /\ env.method = "GET"
    /\ UpstreamValues("X-Object-Sysmeta-Crypto-Meta") = {<<Tok.ok>>}
    /\ ret.msg = HEADER_DIAGNOSTIC
    /\ ret.msg = StageDiagnostic("header value")

(***************************************************************************)
(* Decoding of crypto metadata                                             *)
(***************************************************************************)
\* r, an outcome of _load_crypto_meta, is a record with iv and cipher or the
\* structured metadata error
DecodedOrRejected(r) ==
    \/ r.kind = "ok" /\ DOMAIN r.meta = {"iv", "cipher"}
    \/ r.kind = "http"

\* the request that met the outcome r while decrypting its Etag is answered
\* with a 500 response when r is the metadata error
RejectedIsRendered(r) ==
    r.kind # "ok" => ret.kind = "err_body" /\ sr = <<ErrorCall>>

\* C22: whatever the token of a crypto-meta header is, _load_crypto_meta
\* returns a record holding iv and cipher or fails with the metadata error,
\* which is rendered as a 500 response; no other failure escapes, and a
\* body context exists only for metadata that holds iv and cipher.
C22_MetadataDecodedOrRejected ==
    (ObjWithKeys /\ UpstreamValues("X-Object-Sysmeta-Crypto-Meta-Etag") # {}
        /\ BodyStagePasses)
        => /\ DecodedOrRejected(load_crypto_meta(
                  response_header_value(upstream.headers,
                      "X-Object-Sysmeta-Crypto-Meta-Etag")))
           /\ RejectedIsRendered(load_crypto_meta(
                  response_header_value(upstream.headers,
                      "X-Object-Sysmeta-Crypto-Meta-Etag")))
           /\ ret.msg # "AttributeError"
           /\ ctxt # NoneMeta
                 => /\ JsonLoads(response_header_value(upstream.headers,
                           "X-Object-Sysmeta-Crypto-Meta")).hasIv
                    /\ JsonLoads(response_header_value(upstream.headers,
                           "X-Object-Sysmeta-Crypto-Meta")).hasCipher

(***************************************************************************)
(* Release of the upstream body source                                     *)
(***************************************************************************)
\* the decrypter answered a request the wrapped application had answered
\* with an error response of its own
DecrypterError ==
    /\ Called /\ AppResponded
    /\ ObjRequest \/ ContRequest
    /\ ret.kind = "err_body"

\* C23: when an object GET or HEAD or a container GET ends in an error
\* response of the decrypter the upstream body source has been closed, and
\* whenever the filter has returned the source is handed to the caller,
\* wrapped by the returned sequence, or closed.
C23_UpstreamReleasedOnError ==
    /\ DecrypterError => app_iter.closed = 1
    /\ (Called /\ AppResponded /\ pc = "returned")
          => \/ ret.kind \in {"app_resp", "iter_response"}
             \/ app_iter.closed = 1

(***************************************************************************)
(* Header names after decryption                                           *)
(***************************************************************************)
\* the names of a header list, in lower case
LowerNames(headers) == {Lower(headers[i][1]) : i \in 1..Len(headers)}

\* C24: the header list of a successful object GET or HEAD holds a name only
\* if the upstream response held it, names compared in lower case; a
\* response without Content-Type gets no Content-Type, and one without
\* X-Object-Sysmeta-Crypto-Etag gets no Etag it did not have.
C24_NoInventedHeaders ==
    ObjDecrypted
        => /\ LowerNames(sr[1].headers) \subseteq LowerNames(upstream.headers)
           /\ UpstreamValues("Content-Type") = {}
                 => EmittedValues("Content-Type") = {}
           /\ UpstreamValues("X-Object-Sysmeta-Crypto-Etag") = {}
                 => EmittedValues("Etag") = UpstreamValues("Etag")

(***************************************************************************)
(* One call of start_response                                              *)
(***************************************************************************)
\* the filter returned to its caller: it did not raise
ReturnedNormally == Called /\ ret.kind \notin {"none", "exc"}

\* a request a decrypter answered after resolving keys
AnsweredWithKeys ==
    /\ ObjRequest \/ ContRequest
    /\ Success /\ ~SkipSignal
    /\ ret.kind # "err_body"

\* the one call made is that of the finished response: of the error alone
\* when a stage failed, else of the upstream status after key resolution,
\* with the body context in hand and the headers or the listing rewritten
CommittedWhenFinished ==
    /\ Len(sr) = 1
    /\ ret.kind = "err_body" => sr = <<ErrorCall>>
    /\ (ret.kind # "err_body" /\ AppResponded)
          => sr[1].status = upstream.status
    /\ AnsweredWithKeys => keyCalls = 1
    /\ ret.kind = "iter_response"
          => /\ ctxt # NoneMeta
             /\ FrameHolds(SelectSeq(upstream.headers, NotReplaced),
                           sr[1].headers)
    /\ ret.kind = "listing"
          => ValuesOf(sr[1].headers, "Content-Length")
                = {Dec(Len(ret.body))}

\* C25: whenever the filter returns normally start_response has been called
\* exactly once, with the response as it stands after key resolution, body
\* context establishment and every rewriting, and it is never called again
\* once the filter has returned.
C25_SingleCommit ==
    /\ [](ReturnedNormally => CommittedWhenFinished)
    /\ [][pc # "start" => sr' = sr]_vars

\* a GET whose body context was established and whose header decryption then
\* failed: the caller saw the error response alone
C25_Witness ==
    /\ ReturnedNormally
    /\ env.method = "GET" /\ ObjRequest
    /\ ret.kind = "err_body"
    /\ ctxt # NoneMeta
    /\ keyCalls = 1
    /\ sr = <<ErrorCall>>

====
